---- MODULE Spec2Model ----
(***************************************************************************)
(* The Do toolchain: stack-effect type checker, lowerer to stack-VM        *)
(* bytecode, bytecode VM, and the REPL driver that chains them.            *)
(*                                                                         *)
(* A word of the VM (a Rust usize) is modelled by the integer of small     *)
(* magnitude it is congruent to modulo 2^64: a negative integer -k stands  *)
(* for the word 2^64 - k.  Additions, subtractions and multiplications     *)
(* are then the integer ones, and the unsigned comparisons are ULt/ULe.    *)
(***************************************************************************)
EXTENDS Integers, Sequences, FiniteSets, TLC

(***************************************************************************)
(* Bounds of the model                                                     *)
(***************************************************************************)
MaxLines == 2
MaxListLen == 2
MaxElem == 2
MaxSteps == 120
MaxOperand == 3

(***************************************************************************)
(* Sequence helpers                                                        *)
(***************************************************************************)
Last(s) == s[Len(s)]
Front(s) == SubSeq(s, 1, Len(s) - 1)
Rev(s) == [i \in 1..Len(s) |-> s[Len(s) + 1 - i]]
Min(a, b) == IF a < b THEN a ELSE b
Max(a, b) == IF a < b THEN b ELSE a

(***************************************************************************)
(* typechecker.rs: TypeKind, Option<TypeKind>                              *)
(***************************************************************************)
None == [k |-> "None"]
Bool == [k |-> "Bool"]
IntT == [k |-> "Int"]
List(t) == [k |-> "List", el |-> t]
Block(i, o) == [k |-> "Block", ins |-> i, outs |-> o]
Generic(i) == [k |-> "Generic", i |-> i]

Diagnostic(kind, span) == [kind |-> kind, span |-> span]

\* TypeChecker::new
TypeCheckerNew(fail) ==
    [fail_on_non_empty_stack |-> fail,
     type_stack |-> <<>>,
     diagnostics |-> <<>>,
     erasures |-> <<>>,
     next_generic_index |-> 0,
     functions |-> <<>>,
     bindings |-> <<>>,
     in_block |-> FALSE,
     panic |-> FALSE]

\* HashMap<String, V> as a sequence of <<key, value>> pairs in insertion
\* order; insert replaces the value of an existing key in place.
MapHas(m, key) == \E i \in 1..Len(m) : m[i][1] = key
MapGet(m, key) == m[CHOOSE i \in 1..Len(m) : m[i][1] = key][2]
MapInsert(m, key, val) ==
    IF MapHas(m, key)
    THEN [i \in 1..Len(m) |-> IF m[i][1] = key THEN <<key, val>> ELSE m[i]]
    ELSE Append(m, <<key, val>>)
MapRemove(m, key) == SelectSeq(m, LAMBDA e : e[1] # key)

\* the recursion of TypeChecker::erase on t comes back to a generic it has
\* already followed, and so never returns: the stack of the process overflows
RECURSIVE Loops(_, _, _)
Loops(c, t, seen) ==
    CASE t.k = "Generic" ->
            \/ t.i \in seen
            \/ /\ c.erasures[t.i + 1] # None
               /\ Loops(c, c.erasures[t.i + 1], seen \cup {t.i})
      [] t.k = "List" -> Loops(c, t.el, seen)
      [] t.k = "Block" ->
            \E j \in 1..Len(t.ins \o t.outs) :
                Loops(c, (t.ins \o t.outs)[j], seen)
      [] OTHER -> FALSE

\* what a call of erase that never returns is given as its result
Overflow == [k |-> "Overflow"]

RECURSIVE erase(_, _)
RECURSIVE eraseAll(_, _)
\* TypeChecker::erase; the result None is Option::None
erase(c, t) ==
    CASE Loops(c, t, {}) -> Overflow
      [] t.k = "Generic" ->
            IF c.erasures[t.i + 1] = None THEN None
            ELSE erase(c, c.erasures[t.i + 1])
      [] t.k = "List" ->
            LET e == erase(c, t.el) IN IF e = None THEN None ELSE List(e)
      [] t.k = "Block" -> Block(eraseAll(c, t.ins), eraseAll(c, t.outs))
      [] OTHER -> t

\* .iter().map(|t| self.erase(t).unwrap_or(t.clone())).collect()
eraseAll(c, ts) ==
    [i \in 1..Len(ts) |->
        LET e == erase(c, ts[i]) IN IF e = None THEN ts[i] ELSE e]

\* self.diagnostics.push(...) of a message that unwraps the erased forms
PushMismatch(c, oa, oe, span) ==
    IF erase(c, oe) \in {None, Overflow} \/ erase(c, oa) \in {None, Overflow}
    THEN [c EXCEPT !.panic = TRUE]
    ELSE [c EXCEPT !.diagnostics = Append(@, Diagnostic("mismatch", span))]

PushDiag(c, kind, span) ==
    [c EXCEPT !.diagnostics = Append(@, Diagnostic(kind, span))]

\* TypeChecker::create_generic: the new state; the index is the old
\* next_generic_index
create_generic(c) ==
    [c EXCEPT !.next_generic_index = @ + 1, !.erasures = Append(@, None)]

\* TypeChecker::erase_generic
erase_generic(c, index, erasure) ==
    IF erase(c, erasure) = Overflow THEN [c EXCEPT !.panic = TRUE]
    ELSE [c EXCEPT !.erasures[index + 1] = erase(c, erasure)]

RECURSIVE expect_type_inner(_, _, _, _, _, _)
RECURSIVE expect_zip(_, _, _, _, _, _, _)
expect_zip(c, as, es, i, oa, oe, span) ==
    IF i > Min(Len(as), Len(es)) THEN c
    ELSE expect_zip(expect_type_inner(c, as[i], es[i], oa, oe, span),
                    as, es, i + 1, oa, oe, span)

\* TypeChecker::expect_type_inner
expect_type_inner(c, actual, expected, oa, oe, span) ==
    CASE actual.k = "Block" /\ expected.k = "Block" ->
            LET c1 == IF Len(actual.ins) # Len(expected.ins)
                         \/ Len(actual.outs) # Len(expected.outs)
                      THEN PushMismatch(c, oa, oe, span) ELSE c
                c2 == expect_zip(c1, actual.ins, expected.ins, 1, oa, oe, span)
            IN expect_zip(c2, actual.outs, expected.outs, 1, oa, oe, span)
      [] actual.k = "Generic" /\ expected.k = "List" ->
            IF c.erasures[actual.i + 1] = None
            THEN erase_generic(c, actual.i, expected)
            ELSE expect_type_inner(c, c.erasures[actual.i + 1], expected.el,
                                   oa, oe, span)
      [] actual.k = "List" /\ expected.k = "Generic" ->
            IF c.erasures[expected.i + 1] = None
            THEN erase_generic(c, expected.i, actual)
            ELSE expect_type_inner(c, actual.el, c.erasures[expected.i + 1],
                                   oa, oe, span)
      [] actual.k = "Generic" /\ expected.k # "List" ->
            IF c.erasures[actual.i + 1] = None
            THEN erase_generic(c, actual.i, expected)
            ELSE expect_type_inner(c, c.erasures[actual.i + 1], expected,
                                   oa, oe, span)
      [] actual.k \notin {"Generic", "List"} /\ expected.k = "Generic" ->
            IF c.erasures[expected.i + 1] = None
            THEN erase_generic(c, expected.i, actual)
            ELSE expect_type_inner(c, actual, c.erasures[expected.i + 1],
                                   oa, oe, span)
      [] actual.k = "List" /\ expected.k = "List" ->
            expect_type_inner(c, actual.el, expected.el, oa, oe, span)
      [] OTHER ->
            IF Overflow \in {erase(c, expected), erase(c, actual)}
            THEN [c EXCEPT !.panic = TRUE]
            ELSE IF erase(c, expected) # erase(c, actual)
                 THEN PushMismatch(c, oa, oe, span) ELSE c

\* TypeChecker::expect_type
expect_type(c, actual, expected, span) ==
    expect_type_inner(c, actual, expected, actual, expected, span)

(***************************************************************************)
(* typechecker.rs: typed ops and the checker's operations.  An operation   *)
(* that changes the checker and returns a value yields [c, op] or [c, res] *)
(***************************************************************************)
TypedOp(kind, ins, outs) == [kind |-> kind, ins |-> ins, outs |-> outs]
Checked(c, op) == [c |-> c, op |-> op]

\* TypeChecker::pop_type
pop_type(c, span) ==
    IF c.type_stack # <<>>
    THEN [c |-> [c EXCEPT !.type_stack = Front(@)], res |-> Last(c.type_stack)]
    ELSE IF c.in_block
         THEN [c |-> create_generic(c),
               res |-> [t |-> Generic(c.next_generic_index), span |-> span]]
         ELSE [c |-> PushDiag(c, "empty", span), res |-> None]

RECURSIVE resolve_ins(_, _, _, _)
resolve_ins(c, ins, i, span) ==
    IF i > Len(ins) THEN c
    ELSE IF c.type_stack # <<>>
         THEN resolve_ins(expect_type([c EXCEPT !.type_stack = Front(@)],
                                      Last(c.type_stack).t, ins[i], span),
                          ins, i + 1, span)
         ELSE resolve_ins(PushDiag(c, "empty", span), ins, i + 1, span)

\* TypeChecker::resolve_type_stack
resolve_type_stack(c, span, typed_op) ==
    LET c1 == resolve_ins(c, typed_op.ins, 1, span)
    IN [c1 EXCEPT !.type_stack =
            @ \o [i \in 1..Len(typed_op.outs) |->
                      [t |-> typed_op.outs[i], span |-> span]]]

RECURSIVE symmetrical_zip(_, _, _, _)
symmetrical_zip(c, span, op, i) ==
    IF i > Min(Len(op.ins), Len(op.outs)) THEN c
    ELSE symmetrical_zip(IF op.ins[i] # op.outs[i]
                         THEN PushDiag(c, "asymmetrical", span) ELSE c,
                         span, op, i + 1)

\* TypeChecker::check_op_symmetrical
check_op_symmetrical(c, span, op) ==
    symmetrical_zip(IF Len(op.ins) # Len(op.outs)
                    THEN PushDiag(c, "asymmetrical", span) ELSE c,
                    span, op, 1)

\* the erasing loops that end TypeChecker::type_check_block
EraseBlockSide(c, ts) ==
    [i \in 1..Len(ts) |->
        CASE ts[i].k = "Generic" ->
                IF c.erasures[ts[i].i + 1] # None
                THEN c.erasures[ts[i].i + 1] ELSE ts[i]
          [] ts[i].k = "List" ->
                IF ts[i].el.k = "Generic"
                THEN IF c.erasures[ts[i].el.i + 1] # None
                     THEN List(c.erasures[ts[i].el.i + 1])
                     ELSE List(ts[i].el)
                ELSE ts[i].el
          [] OTHER -> ts[i]]

\* the signature of an operation whose arm of type_check_op creates no
\* generic: <<ins, outs>>
FixedSignature(kind) ==
    CASE kind \in {"Plus", "Minus", "Multiply", "Divide", "Modulo"} ->
            <<(<<IntT, IntT>>), (<<IntT>>)>>
      [] kind \in {"LessThan", "GreaterThan", "LessThanEquals",
                   "GreaterThanEquals"} -> <<(<<IntT, IntT>>), (<<Bool>>)>>
      [] kind \in {"Not", "And", "Or"} -> <<(<<Bool>>), (<<Bool>>)>>
      [] kind = "PushBool" -> <<(<<>>), (<<Bool>>)>>
      [] kind = "PushInt" -> <<(<<>>), (<<IntT>>)>>
      [] kind = "Do" -> <<(<<Block(<<>>, <<>>)>>), (<<>>)>>
      [] kind = "DumpStack" -> <<(<<>>), (<<>>)>>

\* the signature of an operation whose arm creates generics, the first
\* of which has index g: <<number of generics, ins, outs>>
GenericSignature(kind, g) ==
    LET a == Generic(g)
        b == Generic(g + 1)
        cc == Generic(g + 2)
    IN CASE kind = "Equals" -> <<1, (<<a, a>>), (<<Bool>>)>>
         [] kind = "Identity" -> <<1, (<<a>>), (<<a>>)>>
         [] kind = "Dup" -> <<1, (<<a>>), (<<a, a>>)>>
         [] kind = "Len" -> <<1, (<<a>>), (<<IntT>>)>>
         [] kind = "Over" -> <<2, (<<a, b>>), (<<a, b, a>>)>>
         [] kind = "Pop" -> <<1, (<<a>>), (<<>>)>>
         [] kind = "Rot" -> <<3, (<<a, b, cc>>), (<<b, a, cc>>)>>
         [] kind = "Swap" -> <<2, (<<a, b>>), (<<a, b>>)>>
         [] kind = "Print" -> <<1, (<<a>>), (<<>>)>>
         [] kind = "Concat" -> <<1, (<<List(a), List(a)>>), (<<List(a)>>)>>
         [] kind = "Push" -> <<1, (<<a, List(a)>>), (<<List(a)>>)>>
         [] kind = "Head" -> <<1, (<<List(a)>>), (<<a>>)>>
         [] kind = "Tail" -> <<1, (<<List(a)>>), (<<List(a)>>)>>
         [] kind = "Filter" ->
                <<1, (<<Block(<<a>>, <<Bool>>), List(a)>>), (<<List(a)>>)>>
         [] kind = "Fold" ->
                <<2, (<<b, Block(<<a, b>>, <<b>>), List(a)>>), (<<b>>)>>
         [] kind = "Foreach" ->
                <<1, (<<Block(<<a>>, <<>>), List(a)>>), (<<>>)>>
         [] kind = "Map" ->
                <<2, (<<Block(<<a>>, <<b>>), List(a)>>), (<<List(b)>>)>>

FixedKinds ==
    {"Plus", "Minus", "Multiply", "Divide", "Modulo", "LessThan",
     "GreaterThan", "LessThanEquals", "GreaterThanEquals", "Not", "And",
     "Or", "PushBool", "PushInt", "Do", "DumpStack"}

RECURSIVE create_generics(_, _)
create_generics(c, n) ==
    IF n = 0 THEN c ELSE create_generics(create_generic(c), n - 1)

\* for (a, e) in zip(as, es) { self.expect_type(a, e, span) }
RECURSIVE expect_type_zip(_, _, _, _, _)
expect_type_zip(c, as, es, i, span) ==
    IF i > Min(Len(as), Len(es)) THEN c
    ELSE expect_type_zip(expect_type(c, as[i], es[i], span), as, es, i + 1,
                         span)

RECURSIVE type_check_op(_, _, _)
RECURSIVE type_check_block(_, _, _)
RECURSIVE block_loop(_, _, _, _, _, _, _)
RECURSIVE push_list_loop(_, _, _, _, _, _)
RECURSIVE check_body(_, _, _, _)
RECURSIVE bind_names(_, _, _, _, _)

\* the inner loop of type_check_block over one op's ins: an input is
\* unified with the block's last output, or becomes an input of the block
RECURSIVE block_consume(_, _, _, _, _, _)
block_consume(c, op_ins, j, ins, outs, span) ==
    IF j > Len(op_ins) THEN [c |-> c, ins |-> ins, outs |-> outs]
    ELSE IF outs # <<>>
         THEN block_consume(expect_type(c, Last(outs), op_ins[j], span),
                            op_ins, j + 1, ins, Front(outs), span)
         ELSE block_consume(c, op_ins, j + 1, Append(ins, op_ins[j]), outs,
                            span)

\* the loop of type_check_block over the ops of the body
block_loop(c, ops, i, typed_ops, ins, outs, span) ==
    \* a panic of the checker ends the process: nothing runs after it
    IF c.panic \/ i > Len(ops)
    THEN [c |-> c, typed_ops |-> typed_ops, ins |-> ins, outs |-> outs]
    ELSE LET Consumed(r, b) ==
                 block_loop(b.c, ops, i + 1, Append(typed_ops, r.op), b.ins,
                            b.outs \o r.op.outs, span)
             Typed(r) ==
                 Consumed(r, block_consume(r.c, r.op.ins, 1, ins, outs,
                                           ops[i].span))
         IN Typed(type_check_op(c, ops[i], span))

\* TypeChecker::type_check_block
type_check_block(c, ops, span) ==
    LET Erased(c1, b) ==
            Checked(c1, [kind |-> "PushBlock", ops |-> b.typed_ops,
                         ins |-> EraseBlockSide(c1, b.ins),
                         outs |-> EraseBlockSide(c1, b.outs)])
        Looped(b) == Erased([b.c EXCEPT !.in_block = c.in_block], b)
    IN Looped(block_loop([c EXCEPT !.in_block = TRUE], ops, 1, <<>>, <<>>,
                         <<>>, span))

\* the loop of the PushList arm; element_type is an Option
push_list_loop(c, ops, i, element_type, elements, span) ==
    LET ListOf(c1, els) ==
            IF element_type = None
            THEN Checked(create_generic(c1),
                         [kind |-> "PushList", ops |-> els, ins |-> <<>>,
                          outs |-> <<List(Generic(c1.next_generic_index))>>])
            ELSE Checked(c1, [kind |-> "PushList", ops |-> els,
                              ins |-> <<>>, outs |-> <<List(element_type)>>])
        Typed(r) ==
            IF r.op.ins # <<>> \/ Len(r.op.outs) # 1
            THEN ListOf(PushDiag(r.c, "list_element", ops[i].span), <<>>)
            ELSE IF element_type # None
                 THEN push_list_loop(
                         expect_type(r.c, element_type, r.op.outs[1],
                                     ops[i].span),
                         ops, i + 1, element_type, Append(elements, r.op),
                         span)
                 ELSE push_list_loop(r.c, ops, i + 1, r.op.outs[1],
                                     Append(elements, r.op), span)
    IN IF i > Len(ops) THEN ListOf(c, elements)
       ELSE Typed(type_check_op(c, ops[i], span))

\* for op in body { type_check_op; resolve_type_stack; typed_ops.push }
check_body(c, ops, i, typed_ops) ==
    IF c.panic \/ i > Len(ops) THEN [c |-> c, typed_ops |-> typed_ops]
    ELSE LET Typed(r) ==
                 check_body(resolve_type_stack(r.c, ops[i].span, r.op), ops,
                            i + 1, Append(typed_ops, r.op))
         IN Typed(type_check_op(c, ops[i], ops[i].span))

\* the loop of the Binding arm over the names, last name first
bind_names(c, names, i, bound, span) ==
    IF i < 1 THEN [c |-> c, bound |-> bound]
    ELSE LET Popped(p) ==
                 IF p.res = None THEN [c |-> p.c, bound |-> bound]
                 ELSE bind_names([p.c EXCEPT !.bindings =
                                      MapInsert(@, names[i], p.res.t)],
                                 names, i - 1, Append(bound, names[i]), span)
         IN Popped(pop_type(c, span))

\* the If arms of type_check_op
type_check_if(c, op, span) ==
    LET Bogus(c1) ==
            Checked(c1, [kind |-> "If", body |-> <<>>, else_body |-> <<>>,
                         has_else |-> op.has_else,
                         ins |-> <<Bool>>, outs |-> <<>>])
        IfOp(c1, body, else_body) ==
            Checked(c1, [kind |-> "If", body |-> body.op.ops,
                         else_body |-> else_body,
                         has_else |-> op.has_else,
                         ins |-> <<Bool>> \o body.op.ins,
                         outs |-> body.op.outs])
        \* with an else body: both blocks symmetrical, and of one effect
        WithElse(body, els) ==
            IfOp(expect_type_zip(
                     expect_type_zip(
                         check_op_symmetrical(
                             check_op_symmetrical(els.c, span, body.op),
                             span, els.op),
                         body.op.ins, els.op.ins, 1, span),
                     body.op.outs, els.op.outs, 1, span),
                 body, els.op.ops)
        \* the body is checked as a block after the condition is popped; the
        \* condition is pushed back onto the type stack
        Body(p, body) ==
            IF body.c.panic THEN Bogus(body.c)
            ELSE IF op.has_else
            THEN WithElse(body,
                          type_check_block(
                              [body.c EXCEPT !.type_stack = Append(@, p.res)],
                              op.else_body, span))
            ELSE IfOp([check_op_symmetrical(body.c, span, body.op)
                          EXCEPT !.type_stack = Append(@, p.res)],
                      body, <<>>)
        Popped(p) ==
            IF p.res = None THEN Bogus(PushDiag(p.c, "empty", span))
            ELSE IF p.res.t # Bool
                 THEN Bogus(PushDiag(p.c, "mismatch", p.res.span))
                 ELSE Body(p, type_check_block(
                                  check_body(p.c, op.body, 1, <<>>).c,
                                  op.body, span))
    IN Popped(pop_type(c, span))

\* TypeChecker::type_check_op
type_check_op(c, op, span) ==
    CASE op.kind \in {"PushBool", "PushInt"} ->
            Checked(c, [kind |-> op.kind, v |-> op.v,
                        ins |-> FixedSignature(op.kind)[1],
                        outs |-> FixedSignature(op.kind)[2]])
      [] op.kind \in FixedKinds \ {"PushBool", "PushInt"} ->
            Checked(c, TypedOp(op.kind, FixedSignature(op.kind)[1],
                               FixedSignature(op.kind)[2]))
      [] op.kind = "PushList" ->
            push_list_loop(c, op.ops, 1, None, <<>>, span)
      [] op.kind = "PushFunction" ->
            LET Quoted(b) ==
                    Checked(b.c, [kind |-> "PushBlock", ops |-> b.op.ops,
                                  ins |-> <<>>,
                                  outs |-> <<Block(b.op.ins, b.op.outs)>>])
            IN Quoted(type_check_block(c, op.ops, span))
      [] op.kind = "DefineFunction" ->
            LET Defined(b) ==
                    Checked([b.c EXCEPT !.functions =
                                MapInsert(@, op.name, <<b.op.ins, b.op.outs>>)],
                            [kind |-> "DefineFunction", name |-> op.name,
                             block |-> b.op, ins |-> <<>>, outs |-> <<>>])
            IN Defined(type_check_block(c, op.body.ops, span))
      [] op.kind = "Identifier" ->
            IF MapHas(c.bindings, op.name)
            THEN Checked(c, [kind |-> "Value", name |-> op.name,
                             ins |-> <<>>,
                             outs |-> <<MapGet(c.bindings, op.name)>>])
            ELSE IF MapHas(c.functions, op.name)
                 THEN Checked(c, [kind |-> "Call", name |-> op.name,
                                  ins |-> MapGet(c.functions, op.name)[1],
                                  outs |-> MapGet(c.functions, op.name)[2]])
                 ELSE Checked(PushDiag(c, "unknown_identifier", span),
                              [kind |-> "Call", name |-> op.name,
                               ins |-> <<>>, outs |-> <<>>])
      [] op.kind = "If" -> type_check_if(c, op, span)
      [] op.kind = "Binding" ->
            LET Body(bn, b) ==
                    Checked(b.c, [kind |-> "Binding", bindings |-> bn.bound,
                                  body |-> b.typed_ops,
                                  ins |-> <<>>, outs |-> <<>>])
                Bound(bn) == Body(bn, check_body(bn.c, op.body.ops, 1, <<>>))
            IN Bound(bind_names(c, op.bindings, Len(op.bindings), <<>>,
                                op.span))
      [] OTHER ->
            LET Signed(sig) ==
                    Checked(create_generics(c, sig[1]),
                            TypedOp(op.kind, sig[2], sig[3]))
            IN Signed(GenericSignature(op.kind, c.next_generic_index))

RECURSIVE type_check_loop(_, _, _, _)
type_check_loop(c, ops, i, typed_ops) ==
    IF c.panic \/ i > Len(ops) THEN [c |-> c, typed_ops |-> typed_ops]
    ELSE LET Resolved(r, c1) ==
                 IF \E j \in 1..Len(r.op.ins \o r.op.outs) :
                        Loops(c1, (r.op.ins \o r.op.outs)[j], {})
                 THEN [c |-> [c1 EXCEPT !.panic = TRUE],
                       typed_ops |-> typed_ops]
                 ELSE
                 type_check_loop(c1, ops, i + 1,
                     Append(typed_ops,
                            [r.op EXCEPT !.ins = eraseAll(c1, r.op.ins),
                                         !.outs = eraseAll(c1, r.op.outs)]))
             Typed(r) ==
                 Resolved(r, resolve_type_stack(r.c, ops[i].span, r.op))
         IN Typed(type_check_op(c, ops[i], ops[i].span))

\* type_check as it would be without its check of the residual type stack
type_check_without_residual(c, ops) == type_check_loop(c, ops, 1, <<>>)

\* TypeChecker::type_check: the checker after the call and the typed ops
type_check(c, ops) ==
    LET Residual(r) ==
            IF c.fail_on_non_empty_stack
            THEN [r EXCEPT !.c.diagnostics =
                     @ \o [i \in 1..Len(r.c.type_stack) |->
                              Diagnostic("unused", r.c.type_stack[i].span)]]
            ELSE r
    IN Residual(type_check_loop(c, ops, 1, <<>>))

(***************************************************************************)
(* parser.rs: the untyped ops handed to the checker.  A span is modelled   *)
(* by a number that identifies the op: i for the i-th op of a line and     *)
(* 10 * s + j for the j-th op nested in the op of span s.                  *)
(***************************************************************************)
Op(kind) == [kind |-> kind, span |-> 0]
PushInt(v) == [kind |-> "PushInt", v |-> v, span |-> 0]
PushBool(v) == [kind |-> "PushBool", v |-> v, span |-> 0]
PushList(ops) == [kind |-> "PushList", ops |-> ops, span |-> 0]
PushFunction(ops) == [kind |-> "PushFunction", ops |-> ops, span |-> 0]
DefineFunction(name, ops) ==
    [kind |-> "DefineFunction", name |-> name, body |-> PushFunction(ops),
     span |-> 0]
Identifier(name) == [kind |-> "Identifier", name |-> name, span |-> 0]
If(body) ==
    [kind |-> "If", body |-> body, else_body |-> <<>>, has_else |-> FALSE,
     span |-> 0]
IfElse(body, else_body) ==
    [kind |-> "If", body |-> body, else_body |-> else_body,
     has_else |-> TRUE, span |-> 0]
Binding(names, ops) ==
    [kind |-> "Binding", bindings |-> names, body |-> PushFunction(ops),
     span |-> 0]

RECURSIVE WithSpan(_, _)
WithSpans(ops, base) == [i \in 1..Len(ops) |-> WithSpan(ops[i], 10 * base + i)]
WithSpan(op, s) ==
    CASE op.kind \in {"PushList", "PushFunction"} ->
            [op EXCEPT !.span = s, !.ops = WithSpans(@, s)]
      [] op.kind \in {"DefineFunction", "Binding"} ->
            [op EXCEPT !.span = s, !.body = WithSpan(@, s)]
      [] op.kind = "If" ->
            [op EXCEPT !.span = s, !.body = WithSpans(@, s),
                       !.else_body = WithSpans(@, s)]
      [] OTHER -> [op EXCEPT !.span = s]

\* a line of source as the parser delivers it
Line(ops) == WithSpans(ops, 0)

(***************************************************************************)
(* lowerer.rs: ByteCodeInstruction and its encoding                        *)
(***************************************************************************)
\* an instruction; arg is 0 for the variants without an operand
Ins(op, arg) == [op |-> op, arg |-> arg]
I0(op) == Ins(op, 0)

WithOperand ==
    {"Push", "PushBlock", "Load", "Store", "Label", "CallStatic", "Jump",
     "JumpIfFalse"}

\* ByteCodeInstruction::get_opcode
get_opcode(op) ==
    CASE op = "Push" -> 1 [] op = "Pop" -> 2 [] op = "NewList" -> 3
      [] op = "ListLen" -> 4 [] op = "ListGet" -> 5 [] op = "PushBlock" -> 7
      [] op = "Load" -> 8 [] op = "Store" -> 9 [] op = "Dup" -> 10
      [] op = "Over" -> 11 [] op = "Rot" -> 12 [] op = "Swap" -> 13
      [] op = "Add" -> 14 [] op = "Sub" -> 15 [] op = "Mul" -> 16
      [] op = "Div" -> 17 [] op = "Mod" -> 18 [] op = "Gt" -> 19
      [] op = "Lt" -> 20 [] op = "GtEq" -> 21 [] op = "LtEq" -> 22
      [] op = "Eq" -> 23 [] op = "Print" -> 24 [] op = "PrintList" -> 25
      [] op = "Label" -> 26 [] op = "CallStatic" -> 27
      [] op = "CallDynamic" -> 28 [] op = "Jump" -> 29
      [] op = "JumpIfFalse" -> 30 [] op = "Return" -> 31 [] op = "Inc" -> 32
      [] op = "Dec" -> 33 [] op = "PrintBool" -> 34

\* to_binary as it would be if no variant wrote its operand
to_binary_without_operand(ins) == <<get_opcode(ins.op)>>

\* ByteCodeInstruction::to_binary
to_binary(ins) ==
    IF ins.op \in WithOperand THEN <<get_opcode(ins.op), ins.arg>>
    ELSE <<get_opcode(ins.op)>>

Mnemonics ==
    {"Push", "Pop", "NewList", "ListLen", "ListGet", "PushBlock", "Load",
     "Store", "Dup", "Over", "Rot", "Swap", "Add", "Sub", "Mul", "Div",
     "Mod", "Gt", "Lt", "GtEq", "LtEq", "Eq", "Print", "PrintList", "Label",
     "CallStatic", "CallDynamic", "Jump", "JumpIfFalse", "Return", "Inc",
     "Dec", "PrintBool"}

\* the arms of ByteCodeInstruction::decode: the variant an opcode is
\* decoded to, "" for an opcode without an arm
DecodedVariant(opcode) ==
    CASE opcode = 1 -> "Push" [] opcode = 2 -> "Pop" [] opcode = 3 -> "NewList"
      [] opcode = 4 -> "ListLen" [] opcode = 5 -> "ListGet"
      [] opcode = 7 -> "PushBlock" [] opcode = 8 -> "Load"
      [] opcode = 9 -> "Store" [] opcode = 10 -> "Dup" [] opcode = 11 -> "Over"
      [] opcode = 12 -> "Rot" [] opcode = 13 -> "Swap" [] opcode = 14 -> "Add"
      [] opcode = 15 -> "Sub" [] opcode = 16 -> "Mul" [] opcode = 17 -> "Div"
      [] opcode = 18 -> "Mod" [] opcode = 19 -> "Gt" [] opcode = 20 -> "Lt"
      [] opcode = 21 -> "GtEq" [] opcode = 22 -> "LtEq" [] opcode = 23 -> "Eq"
      [] opcode = 24 -> "Print" [] opcode = 25 -> "PrintList"
      [] opcode = 26 -> "Label" [] opcode = 27 -> "CallStatic"
      [] opcode = 28 -> "CallDynamic" [] opcode = 29 -> "Jump"
      [] opcode = 30 -> "JumpIfFalse" [] opcode = 31 -> "Return"
      [] opcode = 32 -> "Inc" [] opcode = 33 -> "Dec"
      [] opcode = 34 -> "PrintBool"
      [] OTHER -> ""

\* the arms of decode that read arguments[0] and return the width 2
DecodedWithArgument ==
    {"Push", "PushBlock", "Load", "Store", "Label", "CallStatic", "Jump",
     "JumpIfFalse"}

\* ByteCodeInstruction::decode: [ins, width], or None where the code
\* panics (an opcode without an arm, arguments[0] of an empty slice)
decode(opcode, arguments) ==
    IF DecodedVariant(opcode) = "" THEN None
    ELSE IF DecodedVariant(opcode) \in DecodedWithArgument
         THEN IF arguments = <<>> THEN None
              ELSE [ins |-> Ins(DecodedVariant(opcode), arguments[1]),
                    width |-> 2]
         ELSE [ins |-> I0(DecodedVariant(opcode)), width |-> 1]

(***************************************************************************)
(* lowerer.rs: Lowerer                                                     *)
(***************************************************************************)
\* Lowerer::new
LowererNew ==
    [next_label |-> 0,
     constant_pool |-> <<>>,
     functions |-> <<>>,
     bindings |-> <<>>,
     fns_to_emit |-> <<>>,
     locals_count |-> 0,
     max_locals |-> 0,
     panic |-> FALSE]

Lowered(l, code) == [l |-> l, code |-> code]

\* format!("block_{}", index)
BlockName(index) == "block_" \o ToString(index)

\* Vec::insert(index, element)
VecInsert(v, index, e) ==
    SubSeq(v, 1, index) \o <<e>> \o SubSeq(v, index + 1, Len(v))

\* the instruction vector of the Map arm
MapCode(func_idx, list_idx, index_idx, cond, end) ==
    <<Ins("Store", func_idx), Ins("Store", list_idx),
      Ins("Load", list_idx), I0("ListLen"), Ins("Store", index_idx),
      Ins("Label", cond),
      Ins("Load", index_idx), Ins("Push", 0), I0("Gt"),
      Ins("JumpIfFalse", end),
      Ins("Load", index_idx), I0("Dec"), Ins("Store", index_idx),
      Ins("Load", list_idx), Ins("Load", index_idx), I0("ListGet"),
      Ins("Load", func_idx), I0("CallDynamic"),
      Ins("Jump", cond),
      Ins("Label", end),
      Ins("Load", list_idx), I0("ListLen"), I0("NewList")>>

\* the instruction vector of the Filter arm
FilterCode(func_idx, list_idx, index_idx, count_idx, cond, end) ==
    <<Ins("Store", func_idx), Ins("Store", list_idx),
      Ins("Load", list_idx), I0("ListLen"), Ins("Store", index_idx),
      Ins("Push", 0), Ins("Store", count_idx),
      Ins("Label", cond),
      Ins("Load", index_idx), Ins("Push", 0), I0("Gt"),
      Ins("JumpIfFalse", end),
      Ins("Load", index_idx), I0("Dec"), Ins("Store", index_idx),
      Ins("Load", list_idx), Ins("Load", index_idx), I0("ListGet"),
      Ins("Load", func_idx), I0("CallDynamic"),
      Ins("JumpIfFalse", cond),
      Ins("Load", list_idx), Ins("Load", index_idx), I0("ListGet"),
      Ins("Load", count_idx), I0("Inc"), Ins("Store", count_idx),
      Ins("Jump", cond),
      Ins("Label", end),
      Ins("Load", count_idx), I0("NewList")>>

\* the instruction vector of the Fold arm
FoldCode(func_idx, list_idx, index_idx, acc_idx, cond, end) ==
    <<Ins("Store", func_idx), Ins("Store", acc_idx), Ins("Store", list_idx),
      Ins("Load", list_idx), I0("ListLen"), Ins("Store", index_idx),
      Ins("Label", cond),
      Ins("Load", index_idx), Ins("Push", 0), I0("Gt"),
      Ins("JumpIfFalse", end),
      Ins("Load", index_idx), I0("Dec"), Ins("Store", index_idx),
      Ins("Load", list_idx), Ins("Load", index_idx), I0("ListGet"),
      Ins("Load", acc_idx),
      Ins("Load", func_idx), I0("CallDynamic"),
      Ins("Store", acc_idx),
      Ins("Jump", cond),
      Ins("Label", end),
      Ins("Load", acc_idx)>>

\* the instruction vector of the Foreach arm
ForeachCode(func_idx, list_idx, index_idx, cond, end) ==
    <<Ins("Store", func_idx), Ins("Store", list_idx),
      Ins("Push", 0), Ins("Store", index_idx),
      Ins("Label", cond),
      Ins("Load", index_idx), Ins("Load", list_idx), I0("ListLen"),
      I0("Lt"), Ins("JumpIfFalse", end),
      Ins("Load", list_idx), Ins("Load", index_idx), I0("ListGet"),
      Ins("Load", func_idx), I0("CallDynamic"),
      Ins("Load", index_idx), I0("Inc"), Ins("Store", index_idx),
      Ins("Jump", cond),
      Ins("Label", end)>>

\* the instruction vector of Lowerer::duplicate_list
DuplicateListCode(list_idx, counter_idx, cond, end) ==
    <<Ins("Store", list_idx), Ins("Load", list_idx),
      I0("ListLen"), Ins("Store", counter_idx),
      Ins("Label", cond),
      Ins("Push", 0), Ins("Load", counter_idx), I0("Gt"),
      Ins("JumpIfFalse", end),
      Ins("Load", counter_idx), I0("Dec"), Ins("Store", counter_idx),
      Ins("Load", list_idx), Ins("Load", counter_idx), I0("ListGet"),
      Ins("Jump", cond),
      Ins("Label", end),
      Ins("Load", list_idx), I0("ListLen"), I0("NewList"),
      Ins("Load", list_idx), I0("Swap")>>

\* Lowerer::duplicate_list: two labels, then two locals
duplicate_list(l) ==
    Lowered([l EXCEPT !.next_label = @ + 2, !.locals_count = @ + 2],
            DuplicateListCode(l.locals_count, l.locals_count + 1,
                              l.next_label, l.next_label + 1))

\* the opcode of a typed op that lowers to one instruction
SimpleOpcode(kind) ==
    CASE kind = "Over" -> "Over" [] kind = "Rot" -> "Rot"
      [] kind = "Swap" -> "Swap" [] kind = "Pop" -> "Pop"
      [] kind = "Plus" -> "Add" [] kind = "Minus" -> "Sub"
      [] kind = "Multiply" -> "Mul" [] kind = "Divide" -> "Div"
      [] kind = "Modulo" -> "Mod" [] kind = "GreaterThan" -> "Gt"
      [] kind = "GreaterThanEquals" -> "GtEq" [] kind = "LessThan" -> "Lt"
      [] kind = "LessThanEquals" -> "LtEq" [] kind = "Equals" -> "Eq"
      [] kind = "Len" -> "ListLen" [] kind = "Do" -> "CallDynamic"

SimpleKinds ==
    {"Over", "Rot", "Swap", "Pop", "Plus", "Minus", "Multiply", "Divide",
     "Modulo", "GreaterThan", "GreaterThanEquals", "LessThan",
     "LessThanEquals", "Equals", "Len", "Do"}

\* the If arm as it would be without the jump over the else body
IfElseCodeFallingThrough(else_label, end, body, else_body) ==
    <<Ins("JumpIfFalse", else_label)>> \o body
    \o <<Ins("Label", else_label)>>
    \o else_body \o <<Ins("Label", end)>>

\* the bytecode the If arm assembles when there is an else body
IfElseCode(else_label, end, body, else_body) ==
    <<Ins("JumpIfFalse", else_label)>> \o body
    \o <<Ins("Jump", end), Ins("Label", else_label)>>
    \o else_body \o <<Ins("Label", end)>>

\* the bytecode the If arm assembles when there is no else body
IfCode(end, body) ==
    <<Ins("JumpIfFalse", end)>> \o body \o <<Ins("Label", end)>>

RECURSIVE lower_op(_, _)
RECURSIVE lower_seq(_, _, _, _)
\* for op in ops { bytecode.extend(self.lower_op(op)) }
lower_seq(l, ops, i, code) ==
    IF i > Len(ops) THEN Lowered(l, code)
    ELSE LET r == lower_op(l, ops[i])
         IN lower_seq(r.l, ops, i + 1, code \o r.code)

\* Lowerer::lower_ops
lower_ops(l, ops) == lower_seq(l, ops, 1, <<>>)

RECURSIVE bind_locals(_, _, _, _)
\* the first loop of the Binding arm: a local and a Store per name
bind_locals(l, names, i, code) ==
    IF i > Len(names) THEN Lowered(l, code)
    ELSE bind_locals([l EXCEPT !.locals_count = @ + 1,
                               !.bindings = MapInsert(@, names[i],
                                                      l.locals_count)],
                     names, i + 1,
                     Append(code, Ins("Store", l.locals_count)))

RECURSIVE unbind_locals(_, _, _)
\* the last loop of the Binding arm
unbind_locals(l, names, i) ==
    IF i > Len(names) THEN l
    ELSE unbind_locals([l EXCEPT !.locals_count = @ - 1,
                                 !.bindings = MapRemove(@, names[i])],
                       names, i + 1)

\* Lowerer::lower_op
lower_op(l, op) ==
    CASE op.kind = "PushInt" -> Lowered(l, <<Ins("Push", op.v)>>)
      [] op.kind = "PushBool" ->
            Lowered(l, <<Ins("Push", IF op.v THEN 1 ELSE 0)>>)
      [] op.kind = "PushList" ->
            LET r == lower_seq(l, Rev(op.ops), 1, <<>>)
            IN Lowered(r.l, r.code \o <<Ins("Push", Len(op.ops)),
                                        I0("NewList")>>)
      [] op.kind = "PushBlock" ->
            LET index == Len(l.constant_pool)
                r == lower_ops(l, op.ops)
            IN Lowered([r.l EXCEPT
                          !.fns_to_emit =
                              MapInsert(@, BlockName(index),
                                        Append(r.code, I0("Return"))),
                          !.constant_pool =
                              VecInsert(@, index, BlockName(index))],
                       <<Ins("PushBlock", index)>>)
      [] op.kind = "Dup" ->
            IF op.ins[1].k = "List" THEN duplicate_list(l)
            ELSE Lowered(l, <<I0("Dup")>>)
      [] op.kind \in SimpleKinds -> Lowered(l, <<I0(SimpleOpcode(op.kind))>>)
      [] op.kind = "Not" -> Lowered(l, <<Ins("Push", 0), I0("Eq")>>)
      [] op.kind = "Map" ->
            Lowered([l EXCEPT !.locals_count = @ + 3, !.next_label = @ + 2],
                    MapCode(l.locals_count, l.locals_count + 1,
                            l.locals_count + 2, l.next_label,
                            l.next_label + 1))
      [] op.kind = "Filter" ->
            Lowered([l EXCEPT !.locals_count = @ + 4, !.next_label = @ + 2],
                    FilterCode(l.locals_count, l.locals_count + 1,
                               l.locals_count + 2, l.locals_count + 3,
                               l.next_label, l.next_label + 1))
      [] op.kind = "Fold" ->
            Lowered([l EXCEPT !.locals_count = @ + 4, !.next_label = @ + 2],
                    FoldCode(l.locals_count, l.locals_count + 1,
                             l.locals_count + 2, l.locals_count + 3,
                             l.next_label, l.next_label + 1))
      [] op.kind = "Foreach" ->
            Lowered([l EXCEPT !.locals_count = @ + 3, !.next_label = @ + 2],
                    ForeachCode(l.locals_count, l.locals_count + 1,
                                l.locals_count + 2, l.next_label,
                                l.next_label + 1))
      [] op.kind = "Print" ->
            Lowered(l, <<I0(CASE op.ins[1].k = "List" -> "PrintList"
                              [] op.ins[1].k = "Bool" -> "PrintBool"
                              [] OTHER -> "Print")>>)
      [] op.kind = "DefineFunction" ->
            LET r == lower_seq(l, op.block.ops, 1, <<>>)
            IN Lowered([r.l EXCEPT
                          !.functions =
                              Append(@, <<op.block.ins, op.block.outs>>),
                          !.constant_pool = Append(@, op.name),
                          !.fns_to_emit =
                              MapInsert(@, op.name,
                                        Append(r.code, I0("Return")))],
                       <<>>)
      [] op.kind = "Call" ->
            IF \E i \in 1..Len(l.constant_pool) : l.constant_pool[i] = op.name
            THEN Lowered(l, <<Ins("CallStatic",
                    (CHOOSE i \in 1..Len(l.constant_pool) :
                        /\ l.constant_pool[i] = op.name
                        /\ \A j \in 1..(i - 1) :
                               l.constant_pool[j] # op.name) - 1)>>)
            ELSE Lowered([l EXCEPT !.panic = TRUE], <<>>)
      [] op.kind = "Binding" ->
            LET b == bind_locals(l, op.bindings, 1, <<>>)
                r == lower_seq(b.l, op.body, 1, b.code)
                l1 == [r.l EXCEPT !.max_locals = Max(@, r.l.locals_count)]
            IN Lowered(unbind_locals(l1, op.bindings, 1), r.code)
      [] op.kind = "Value" ->
            IF MapHas(l.bindings, op.name)
            THEN Lowered(l, <<Ins("Load", MapGet(l.bindings, op.name))>>)
            ELSE Lowered([l EXCEPT !.panic = TRUE], <<>>)
      [] op.kind = "Identity" -> Lowered(l, <<>>)
      [] op.kind = "If" ->
            LET end == l.next_label
                body == lower_seq([l EXCEPT !.next_label = @ + 1], op.body,
                                  1, <<>>)
            IN IF op.has_else
               THEN LET else_label == body.l.next_label
                        els == lower_seq([body.l EXCEPT !.next_label = @ + 1],
                                         op.else_body, 1, <<>>)
                    IN Lowered(els.l, IfElseCode(else_label, end, body.code,
                                                 els.code))
               ELSE Lowered(body.l, IfCode(end, body.code))
      [] OTHER -> Lowered([l EXCEPT !.panic = TRUE], <<>>)

StackFrame(name, instructions, max_locals) ==
    [name |-> name, instructions |-> instructions, max_locals |-> max_locals]

\* the orders in which the n entries of a HashMap can be iterated
IterationOrders(n) ==
    {p \in [1..n -> 1..n] : \A i, j \in 1..n : p[i] = p[j] => i = j}

\* the frames of the functions as an iteration of fns_to_emit yields them,
\* main staying last
Iterated(frames, order) ==
    [i \in 1..Len(frames) |->
        IF i = Len(frames) THEN frames[i] ELSE frames[order[i]]]

\* Lowerer::lower: the lowerer after the call and the frames, main last.
\* The functions come here in the order of their insertion; Launch draws
\* the order in which the HashMap is iterated.
lower(l, ops) ==
    LET r == lower_ops(l, ops)
        l1 == [r.l EXCEPT !.locals_count = 0, !.bindings = <<>>]
    IN [l |-> l1,
        frames |->
            [i \in 1..Len(l1.fns_to_emit) |->
                StackFrame(l1.fns_to_emit[i][1], l1.fns_to_emit[i][2],
                           l1.max_locals)]
            \o <<StackFrame("main", r.code, r.l.max_locals)>>]

(***************************************************************************)
(* bytecode_interpreter.rs: BytecodeInterpreter.  status is "ok" while the *)
(* process runs, "panic" once it has panicked, and "beyond" when a         *)
(* division meets a word above 2^63, which the integers of the model do    *)
(* not follow.  functions and constants are the local and the parameter of *)
(* interpret that interpret_op reads.                                      *)
(***************************************************************************)
InitialLocals == 8

\* BytecodeInterpreter::new
BytecodeInterpreterNew ==
    [pc |-> 0,
     rom |-> <<>>,
     stack |-> <<>>,
     heap |-> <<>>,
     locals |-> [i \in 1..InitialLocals |-> 0],
     labels |-> <<>>,
     rsp |-> 0,
     functions |-> <<>>,
     constants |-> <<>>,
     status |-> "ok"]

\* comparisons of two words (usize)
ULt(a, b) == IF (a < 0) = (b < 0) THEN a < b ELSE b < 0
ULe(a, b) == a = b \/ ULt(a, b)

RECURSIVE load_instructions(_, _, _)
\* the inner loop of interpret over the instructions of one frame
load_instructions(vm, instructions, i) ==
    IF i > Len(instructions) THEN vm
    ELSE LET ins == instructions[i]
             labels1 ==
                 IF ins.op = "Label"
                 THEN LET ext == IF ins.arg >= Len(vm.labels)
                                 THEN vm.labels \o
                                      [j \in 1..(ins.arg - Len(vm.labels) + 1)
                                          |-> 0]
                                 ELSE vm.labels
                      IN [ext EXCEPT ![ins.arg + 1] = Len(vm.rom)]
                 ELSE vm.labels
         IN load_instructions([vm EXCEPT !.labels = labels1,
                                         !.rom = @ \o to_binary(ins)],
                              instructions, i + 1)

RECURSIVE load_program(_, _, _)
\* the first loop of BytecodeInterpreter::interpret
load_program(vm, program, i) ==
    IF i > Len(program) THEN vm
    ELSE LET f == program[i]
             vm1 == [vm EXCEPT
                       !.functions = MapInsert(@, f.name, Len(vm.rom)),
                       !.pc = IF f.name = "main" THEN Len(vm.rom) ELSE @]
         IN load_program(load_instructions(vm1, f.instructions, 1), program,
                         i + 1)

\* BytecodeInterpreter::interpret up to its while loop
interpret_load(vm, program, constants) ==
    load_program([vm EXCEPT !.functions = <<>>, !.constants = constants],
                 program, 1)

Effect(vm, printed) == [vm |-> vm, printed |-> printed]
Panic(vm) == Effect([vm EXCEPT !.status = "panic"], <<>>)
Quiet(vm) == Effect(vm, <<>>)
Printed(kind, v) == [kind |-> kind, v |-> v]

\* self.stack.pop().unwrap() n times then push the words of res
PopPush(vm, n, res) ==
    [vm EXCEPT !.stack = SubSeq(@, 1, Len(@) - n) \o res]

\* the word n places below the top of the stack (0 is the top)
Peek(vm, n) == vm.stack[Len(vm.stack) - n]

\* BytecodeInterpreter::alloc
alloc(vm, size) ==
    [vm |-> [vm EXCEPT !.heap = @ \o [i \in 1..size |-> 0]],
     index |-> Len(vm.heap)]

\* NewList as it would be if the cells were filled from the bottom-most
\* of the popped words upwards
new_list_bottom_first(vm) ==
    IF vm.stack = <<>> THEN Panic(vm)
    ELSE LET length == Peek(vm, 0)
         IN IF length < 0 \/ Len(vm.stack) - 1 < length THEN Panic(vm)
            ELSE LET a == alloc(PopPush(vm, 1, <<>>), length + 1)
                     ptr == a.index
                     st == a.vm.stack
                 IN Quiet([a.vm EXCEPT
                     !.heap = [j \in 1..Len(@) |->
                                 IF j = ptr + 1 THEN length
                                 ELSE IF j > ptr + 1
                                      THEN st[Len(st) - length + (j - ptr - 1)]
                                      ELSE @[j]],
                     !.stack = SubSeq(st, 1, Len(st) - length) \o <<ptr>>])

\* the arm of interpret_op for NewList
new_list(vm) ==
    IF vm.stack = <<>> THEN Panic(vm)
    ELSE LET length == Peek(vm, 0)
         IN IF length < 0 \/ Len(vm.stack) - 1 < length THEN Panic(vm)
            ELSE LET a == alloc(PopPush(vm, 1, <<>>), length + 1)
                     ptr == a.index
                     st == a.vm.stack
                 IN Quiet([a.vm EXCEPT
                     !.heap = [j \in 1..Len(@) |->
                                 IF j = ptr + 1 THEN length
                                 ELSE IF j > ptr + 1
                                      THEN st[Len(st) - (j - ptr - 2)]
                                      ELSE @[j]],
                     !.stack = SubSeq(st, 1, Len(st) - length) \o <<ptr>>])

\* the Call arm as it would be if it did not save the return address
call_without_save(vm, func) ==
    IF func < 0 \/ func >= Len(vm.constants) THEN Panic(vm)
    ELSE IF ~MapHas(vm.functions, vm.constants[func + 1]) THEN Panic(vm)
    ELSE Quiet([vm EXCEPT !.pc = MapGet(vm.functions,
                                        vm.constants[func + 1])])

\* the Call arm once the function pointer func is in hand
call(vm, func) ==
    IF func < 0 \/ func >= Len(vm.constants) THEN Panic(vm)
    ELSE IF ~MapHas(vm.functions, vm.constants[func + 1]) THEN Panic(vm)
    ELSE Quiet([vm EXCEPT !.rsp = vm.pc,
                          !.pc = MapGet(vm.functions,
                                        vm.constants[func + 1])])

\* the Return arm as it would be if it kept the saved address
return_keeping_address(vm) == Quiet([vm EXCEPT !.pc = vm.rsp])

\* the Return arm: back to the saved address, which is then cleared
return_from(vm) == Quiet([vm EXCEPT !.pc = vm.rsp, !.rsp = 0])

\* the arm of the static call: the function pointer is the operand
call_static(vm, index) == call(vm, index)

\* the arithmetic arms; wraps tells whether the build wraps on overflow
\* (release) or panics (debug)
arith(vm, op, wraps) ==
    LET a == Peek(vm, 0)
        b == Peek(vm, 1)
        overflow ==
            CASE op = "Add" -> (a < 0 /\ b < 0)
                               \/ ((a < 0) # (b < 0) /\ a + b >= 0)
              [] op = "Sub" -> ULt(b, a)
              [] op = "Mul" -> (a < 0 /\ b < 0) \/ (a < 0 /\ b > 1)
                               \/ (b < 0 /\ a > 1)
              [] OTHER -> FALSE
    IN IF op \in {"Div", "Mod"}
       THEN IF a = 0 THEN Panic(vm)
            ELSE IF a < 0 \/ b < 0
                 THEN Effect([vm EXCEPT !.status = "beyond"], <<>>)
                 ELSE Quiet(PopPush(vm, 2, <<IF op = "Div" THEN b \div a
                                             ELSE b % a>>))
       ELSE IF overflow /\ ~wraps THEN Panic(vm)
            ELSE Quiet(PopPush(vm, 2,
                    <<CASE op = "Add" -> b + a
                        [] op = "Sub" -> b - a
                        [] op = "Mul" -> b * a>>))

\* the comparison arms
compare(vm, op) ==
    LET a == Peek(vm, 0)
        b == Peek(vm, 1)
        r == CASE op = "Gt" -> ULt(a, b)
               [] op = "GtEq" -> ULe(a, b)
               [] op = "Lt" -> ULt(b, a)
               [] op = "LtEq" -> ULe(b, a)
               [] op = "Eq" -> b = a
    IN Quiet(PopPush(vm, 2, <<IF r THEN 1 ELSE 0>>))

\* the operands an arm unwraps from the stack before it does anything else
Unwrapped(op) ==
    CASE op \in {"ListLen", "Dup", "Inc", "Dec", "Print", "PrintBool",
                 "PrintList", "CallDynamic", "Store", "JumpIfFalse"} -> 1
      [] op \in {"ListGet", "Swap", "Over", "Add", "Sub", "Mul", "Div",
                 "Mod", "Gt", "GtEq", "Lt", "LtEq", "Eq"} -> 2
      [] op = "Rot" -> 3
      [] OTHER -> 0

InHeap(vm, i) == 0 <= i /\ i < Len(vm.heap)

\* BytecodeInterpreter::interpret_op
interpret_op(vm, ins, wraps) ==
    LET op == ins.op
        a == Peek(vm, 0)
        b == Peek(vm, 1)
    IN IF Len(vm.stack) < Unwrapped(op) THEN Panic(vm)
       ELSE
       CASE op = "Push" -> Quiet(PopPush(vm, 0, <<ins.arg>>))
         [] op = "NewList" -> new_list(vm)
         [] op = "PushBlock" -> Quiet(PopPush(vm, 0, <<ins.arg>>))
         [] op = "ListLen" ->
                IF InHeap(vm, a) THEN Quiet(PopPush(vm, 1, <<vm.heap[a + 1]>>))
                ELSE Panic(vm)
         [] op = "ListGet" ->
                \* a is the index, b the pointer; ptr + index + 1 overflows
                \* when one of them is a wrapped word
                IF ((a >= 0 /\ b >= 0) \/ wraps) /\ InHeap(vm, b + a + 1)
                THEN Quiet(PopPush(vm, 2, <<vm.heap[b + a + 2]>>))
                ELSE Panic(vm)
         [] op = "Pop" -> Quiet(PopPush(vm, Min(1, Len(vm.stack)), <<>>))
         [] op = "Dup" -> Quiet(PopPush(vm, 1, <<a, a>>))
         [] op = "Swap" -> Quiet(PopPush(vm, 2, <<a, b>>))
         [] op = "Over" -> Quiet(PopPush(vm, 2, <<b, a, b>>))
         [] op = "Rot" -> Quiet(PopPush(vm, 3, <<b, a, Peek(vm, 2)>>))
         [] op = "Inc" ->
                IF a = -1 /\ ~wraps THEN Panic(vm)
                ELSE Quiet(PopPush(vm, 1, <<a + 1>>))
         [] op = "Dec" ->
                IF a = 0 /\ ~wraps THEN Panic(vm)
                ELSE Quiet(PopPush(vm, 1, <<a - 1>>))
         [] op \in {"Add", "Sub", "Mul", "Div", "Mod"} -> arith(vm, op, wraps)
         [] op \in {"Gt", "GtEq", "Lt", "LtEq", "Eq"} -> compare(vm, op)
         [] op = "Print" ->
                Effect(PopPush(vm, 1, <<>>), <<Printed("int", <<a>>)>>)
         [] op = "PrintBool" ->
                Effect(PopPush(vm, 1, <<>>),
                       <<Printed("bool", <<IF ULt(0, a) THEN 1 ELSE 0>>)>>)
         [] op = "PrintList" ->
                IF InHeap(vm, a) /\ vm.heap[a + 1] >= 0
                   /\ a + vm.heap[a + 1] < Len(vm.heap)
                THEN Effect(PopPush(vm, 1, <<>>),
                            <<Printed("list",
                                [i \in 1..vm.heap[a + 1] |->
                                    vm.heap[a + 1 + i]])>>)
                ELSE Panic(vm)
         [] op = "CallDynamic" -> call(PopPush(vm, 1, <<>>), a)
         [] op = "CallStatic" -> call_static(vm, ins.arg)
         [] op = "Return" -> return_from(vm)
         [] op = "Store" ->
                IF Len(vm.locals) <= ins.arg
                THEN IF ins.arg > Len(vm.locals) THEN Panic(vm)
                     ELSE Quiet([PopPush(vm, 1, <<>>) EXCEPT
                                    !.locals = Append(@, a)])
                ELSE Quiet([PopPush(vm, 1, <<>>) EXCEPT
                               !.locals[ins.arg + 1] = a])
         [] op = "Load" ->
                IF ins.arg < Len(vm.locals)
                THEN Quiet(PopPush(vm, 0, <<vm.locals[ins.arg + 1]>>))
                ELSE Panic(vm)
         [] op = "Label" -> Quiet(vm)
         [] op = "JumpIfFalse" ->
                IF a = 0
                THEN IF ins.arg < Len(vm.labels)
                     THEN Quiet([PopPush(vm, 1, <<>>) EXCEPT
                                    !.pc = vm.labels[ins.arg + 1]])
                     ELSE Panic(vm)
                ELSE Quiet(PopPush(vm, 1, <<>>))
         [] op = "Jump" ->
                IF ins.arg < Len(vm.labels)
                THEN Quiet([vm EXCEPT !.pc = vm.labels[ins.arg + 1]])
                ELSE Panic(vm)

\* one turn of the while loop of BytecodeInterpreter::interpret
interpret_step(vm, wraps) ==
    LET d == decode(vm.rom[vm.pc + 1],
                    SubSeq(vm.rom, vm.pc + 2, Len(vm.rom)))
    IN IF d = None THEN Panic(vm)
       ELSE interpret_op([vm EXCEPT !.pc = @ + d.width], d.ins, wraps)

(***************************************************************************)
(* interpreter.rs: the tree-walking Interpreter.  out is what println!     *)
(* has written, one entry per line, each the tokens of the line; panic     *)
(* tells that the process has panicked (unwrap, unreachable!, todo!)       *)
(***************************************************************************)
VInt(n) == [k |-> "Int", v |-> n]
VBool(b) == [k |-> "Bool", v |-> b]
VList(vs) == [k |-> "List", vs |-> vs]
VBlock(ops) == [k |-> "Block", ops |-> ops]

\* Interpreter::new
InterpreterNew == [stack |-> <<>>, functions |-> <<>>, out |-> <<>>,
                   panic |-> FALSE]
\* Interpreter::new_sub(self.functions.clone()); the output is the process's
new_sub(t) == [t EXCEPT !.stack = <<>>]
TreePanic(t) == [t EXCEPT !.panic = TRUE]

RECURSIVE DisplayValue(_)
RECURSIVE DisplayValues(_, _)
DisplayValues(vs, i) ==
    IF i > Len(vs) THEN <<>> ELSE DisplayValue(vs[i]) \o DisplayValues(vs, i + 1)
\* impl Display for Value, as the tokens that spaces separate
DisplayValue(v) ==
    CASE v.k = "Bool" -> <<IF v.v THEN "true" ELSE "false">>
      [] v.k = "Int" -> <<ToString(v.v)>>
      [] v.k = "List" -> <<"[">> \o DisplayValues(v.vs, 1) \o <<"]">>
      [] v.k = "Block" -> <<"(", ")">>

\* i64 division and remainder, which truncate towards zero
Abs(n) == IF n < 0 THEN 0 - n ELSE n
TruncDiv(b, a) ==
    IF (b < 0) = (a < 0) THEN Abs(b) \div Abs(a)
    ELSE 0 - (Abs(b) \div Abs(a))
TruncRem(b, a) == b - a * TruncDiv(b, a)

\* impl Add, Sub, Mul, Div, Rem for Value: the stack after the op, b below a
TreeArith(t, kind) ==
    LET a == t.stack[Len(t.stack)]
        b == t.stack[Len(t.stack) - 1]
        under == SubSeq(t.stack, 1, Len(t.stack) - 2)
    IN IF Len(t.stack) < 2 THEN TreePanic(t)
       ELSE IF a.k # "Int" \/ b.k # "Int" THEN TreePanic(t)
       ELSE IF kind \in {"Divide", "Modulo"} /\ a.v = 0 THEN TreePanic(t)
       ELSE [t EXCEPT !.stack = Append(under, VInt(
                CASE kind = "Plus" -> b.v + a.v
                  [] kind = "Minus" -> b.v - a.v
                  [] kind = "Multiply" -> b.v * a.v
                  [] kind = "Divide" -> TruncDiv(b.v, a.v)
                  [] kind = "Modulo" -> TruncRem(b.v, a.v)))]

\* the rank of a value in impl PartialOrd and PartialEq for Value
Rank(v) == IF v.k = "Int" THEN v.v ELSE IF v.v THEN 1 ELSE 0
TreeCompare(t, kind) ==
    LET a == t.stack[Len(t.stack)]
        b == t.stack[Len(t.stack) - 1]
        under == SubSeq(t.stack, 1, Len(t.stack) - 2)
    IN IF Len(t.stack) < 2 THEN TreePanic(t)
       ELSE IF a.k # b.k \/ a.k \notin {"Int", "Bool"} THEN TreePanic(t)
       ELSE [t EXCEPT !.stack = Append(under, VBool(
                CASE kind = "LessThan" -> Rank(b) < Rank(a)
                  [] kind = "LessThanEquals" -> Rank(b) <= Rank(a)
                  [] kind = "GreaterThan" -> Rank(b) > Rank(a)
                  [] kind = "GreaterThanEquals" -> Rank(b) >= Rank(a)
                  [] kind = "Equals" -> Rank(b) = Rank(a)))]

\* the arms of Interpreter::interpret that neither call a block nor build
\* a list
TreeSimple(t, op) ==
    LET n == Len(t.stack)
        a == t.stack[n]
        b == t.stack[n - 1]
        Under(k) == SubSeq(t.stack, 1, n - k)
    IN CASE op.kind = "PushBool" -> [t EXCEPT !.stack = Append(@, VBool(op.v))]
         [] op.kind = "PushInt" -> [t EXCEPT !.stack = Append(@, VInt(op.v))]
         [] op.kind = "PushFunction" ->
                [t EXCEPT !.stack = Append(@, VBlock(op.ops))]
         [] op.kind \in {"Plus", "Minus", "Multiply", "Divide", "Modulo"} ->
                TreeArith(t, op.kind)
         [] op.kind \in {"LessThan", "LessThanEquals", "GreaterThan",
                         "GreaterThanEquals", "Equals"} ->
                TreeCompare(t, op.kind)
         [] op.kind = "Not" ->
                IF n < 1 THEN TreePanic(t)
                ELSE IF a.k # "Bool" THEN TreePanic(t)
                ELSE [t EXCEPT !.stack = Append(Under(1), VBool(~a.v))]
         [] op.kind \in {"And", "Or"} ->
                IF n < 2 THEN TreePanic(t)
                ELSE IF a.k # "Bool" \/ b.k # "Bool" THEN TreePanic(t)
                ELSE [t EXCEPT !.stack = Append(Under(2), VBool(
                        IF op.kind = "And" THEN a.v /\ b.v ELSE a.v \/ b.v))]
         [] op.kind = "Identity" -> IF n < 1 THEN TreePanic(t) ELSE t
         [] op.kind = "Dup" ->
                IF n < 1 THEN TreePanic(t)
                ELSE [t EXCEPT !.stack = Append(@, a)]
         [] op.kind = "Len" ->
                IF n < 1 THEN TreePanic(t)
                ELSE IF a.k # "List" THEN TreePanic(t)
                ELSE [t EXCEPT !.stack = Append(Under(1), VInt(Len(a.vs)))]
         [] op.kind = "Over" ->
                IF n < 2 THEN TreePanic(t)
                ELSE [t EXCEPT !.stack = Under(2) \o <<b, a, b>>]
         [] op.kind = "Pop" ->
                IF n < 1 THEN TreePanic(t) ELSE [t EXCEPT !.stack = Under(1)]
         [] op.kind = "Rot" ->
                IF n < 3 THEN TreePanic(t)
                ELSE [t EXCEPT !.stack = Under(3) \o <<b, a, t.stack[n - 2]>>]
         [] op.kind = "Swap" ->
                IF n < 2 THEN TreePanic(t)
                ELSE [t EXCEPT !.stack = Under(2) \o <<a, b>>]
         [] op.kind = "Print" ->
                IF n < 1 THEN TreePanic(t)
                ELSE [t EXCEPT !.stack = Under(1),
                               !.out = Append(@, DisplayValue(a))]
         [] op.kind = "DumpStack" -> t
         [] op.kind = "DefineFunction" ->
                [t EXCEPT !.functions = MapInsert(@, op.name, op.body.ops)]
         \* If and Binding are todo!(); Concat, Push, Head and Tail have no
         \* arm in the lowerer and are in no line of the sessions
         [] OTHER -> TreePanic(t)

TreeSimpleKinds ==
    {"PushBool", "PushInt", "PushFunction", "Plus", "Minus", "Multiply",
     "Divide", "Modulo", "LessThan", "LessThanEquals", "GreaterThan",
     "GreaterThanEquals", "Equals", "Not", "And", "Or", "Identity", "Dup",
     "Len", "Over", "Pop", "Rot", "Swap", "Print", "DumpStack",
     "DefineFunction"}

RECURSIVE Interpreter_interpret(_, _, _)
RECURSIVE tree_op(_, _)
RECURSIVE list_values(_, _, _, _)
RECURSIVE each_value(_, _, _, _)
RECURSIVE fold_values(_, _, _, _, _)

\* the loop of the PushList arm over the elements of the literal
list_values(t, ops, i, values) ==
    IF i > Len(ops) \/ t.panic
    THEN [t EXCEPT !.stack = Append(@, VList(values))]
    ELSE CASE ops[i].kind = "PushInt" ->
                list_values(t, ops, i + 1, Append(values, VInt(ops[i].v)))
           [] ops[i].kind = "PushBool" ->
                list_values(t, ops, i + 1, Append(values, VBool(ops[i].v)))
           [] ops[i].kind = "PushList" ->
                LET Sub(sub) ==
                        list_values([t EXCEPT !.out = sub.out,
                                              !.panic = sub.panic],
                                    ops, i + 1,
                                    Append(values, VList(sub.stack)))
                IN Sub(Interpreter_interpret(new_sub(t), ops[i].ops, 1))
           [] ops[i].kind = "PushFunction" ->
                list_values(t, ops, i + 1,
                            Append(values, VBlock(ops[i].ops)))
           [] OTHER -> TreePanic(t)

\* for value in values { stack.push(value.clone()); interpret(ops) }
each_value(t, values, j, ops) ==
    IF j > Len(values) \/ t.panic THEN t
    ELSE each_value(
            Interpreter_interpret([t EXCEPT !.stack = Append(@, values[j])],
                                  ops, 1),
            values, j + 1, ops)

\* the loop of the Fold arm: the sub-interpreter and the accumulator
fold_values(sub, acc, values, j, ops) ==
    IF j > Len(values) \/ sub.panic THEN [sub |-> sub, acc |-> acc]
    ELSE LET Ran(r) ==
                 IF r.panic \/ r.stack = <<>>
                 THEN [sub |-> TreePanic(r), acc |-> acc]
                 ELSE fold_values([r EXCEPT !.stack = Front(@)],
                                  Last(r.stack), values, j + 1, ops)
         IN Ran(Interpreter_interpret(
                    [sub EXCEPT !.stack = @ \o <<acc, values[j]>>], ops, 1))

\* the results of the Filter arm: the values whose result is true
Kept(values, results) ==
    [stuck |-> \/ Len(results) > Len(values)
               \/ \E i \in 1..Len(results) : results[i].k # "Bool",
     vs |-> [x \in 1..Cardinality({i \in 1..Min(Len(results), Len(values)) :
                                      results[i].k = "Bool" /\ results[i].v})
               |-> values[CHOOSE i \in 1..Len(results) :
                    /\ results[i].k = "Bool" /\ results[i].v
                    /\ Cardinality({k \in 1..i :
                          results[k].k = "Bool" /\ results[k].v}) = x]]]

\* one arm of the match of Interpreter::interpret
tree_op(t, op) ==
    LET n == Len(t.stack)
        a == t.stack[n]
        b == t.stack[n - 1]
        Under(k) == SubSeq(t.stack, 1, n - k)
        Rest(k) == [t EXCEPT !.stack = Under(k)]
        \* the stack of self after a sub-interpreter has run
        After(k, sub, v) ==
            [t EXCEPT !.stack = Append(Under(k), v), !.out = sub.out,
                      !.panic = sub.panic]
    IN CASE op.kind \in TreeSimpleKinds -> TreeSimple(t, op)
         [] op.kind = "PushList" -> list_values(t, op.ops, 1, <<>>)
         [] op.kind = "Do" ->
                IF n < 1 THEN TreePanic(t)
                ELSE IF a.k # "Block" THEN TreePanic(t)
                ELSE Interpreter_interpret(Rest(1), a.ops, 1)
         [] op.kind = "Identifier" ->
                IF ~MapHas(t.functions, op.name) THEN TreePanic(t)
                ELSE Interpreter_interpret(t, MapGet(t.functions, op.name), 1)
         [] op.kind = "Foreach" ->
                IF n < 2 THEN TreePanic(t)
                ELSE IF a.k # "Block" \/ b.k # "List" THEN TreePanic(t)
                ELSE each_value(Rest(2), b.vs, 1, a.ops)
         [] op.kind = "Map" ->
                IF n < 2 THEN TreePanic(t)
                ELSE IF a.k # "Block" \/ b.k # "List" THEN TreePanic(t)
                ELSE LET Mapped(sub) == After(2, sub, VList(sub.stack))
                     IN Mapped(each_value(new_sub(t), b.vs, 1, a.ops))
         [] op.kind = "Filter" ->
                IF n < 2 THEN TreePanic(t)
                ELSE IF a.k # "Block" \/ b.k # "List" THEN TreePanic(t)
                ELSE LET Chosen(sub, kept) ==
                             IF kept.stuck /\ ~sub.panic
                             THEN TreePanic(After(2, sub, VList(<<>>)))
                             ELSE After(2, sub, VList(kept.vs))
                         Filtered(sub) ==
                             Chosen(sub, Kept(b.vs, sub.stack))
                     IN Filtered(each_value(new_sub(t), b.vs, 1, a.ops))
         [] op.kind = "Fold" ->
                \* the accumulator is on top, the block below it, the list
                \* below the block
                IF n < 3 THEN TreePanic(t)
                ELSE IF b.k # "Block" \/ t.stack[n - 2].k # "List"
                THEN TreePanic(t)
                ELSE LET Folded(f) == After(3, f.sub, f.acc)
                     IN Folded(fold_values(new_sub(t), a, t.stack[n - 2].vs, 1,
                                           b.ops))
         [] OTHER -> TreePanic(t)

\* Interpreter::interpret, from the i-th op on
Interpreter_interpret(t, ops, i) ==
    IF i > Len(ops) \/ t.panic THEN t
    ELSE Interpreter_interpret(tree_op(t, ops[i]), ops, i + 1)

(***************************************************************************)
(* The lines a session can read                                            *)
(***************************************************************************)
RECURSIVE SeqsOfLen(_, _)
SeqsOfLen(S, n) ==
    IF n = 0 THEN {<<>>}
    ELSE {Append(s, x) : s \in SeqsOfLen(S, n - 1), x \in S}
SeqsUpTo(S, n) == UNION {SeqsOfLen(S, k) : k \in 0..n}

\* the lists of the list literals
IntLists == SeqsUpTo(1..MaxElem, MaxListLen)
BoolLists == SeqsUpTo(BOOLEAN, MaxListLen)
ListLit(xs) == PushList([i \in 1..Len(xs) |-> PushInt(xs[i])])
BoolListLit(bs) == PushList([i \in 1..Len(bs) |-> PushBool(bs[i])])

\* quotations
Inc1 == PushFunction(<<PushInt(1), Op("Plus")>>)
IsEven == PushFunction(<<PushInt(2), Op("Modulo"), PushInt(0), Op("Equals")>>)
Plus == PushFunction(<<Op("Plus")>>)
Rebind == PushFunction(<<Op("Identity"),
                         Binding(<<"x">>, <<Identifier("x")>>)>>)
PrintIt == PushFunction(<<Op("Print")>>)

\* one operand of each scalar type: the word 2 is an Int and the word 1 a
\* Bool, so that a word of the stack tells which operand it came from
ShuffleOperands == {PushInt(2), PushBool(TRUE)}
ShuffleLines ==
    {<<a, Op("Dup")>> : a \in ShuffleOperands}
    \cup {<<a, b, Op(k)>> : a \in ShuffleOperands, b \in ShuffleOperands,
                            k \in {"Swap", "Over"}}
    \cup {<<a, b, c, Op("Rot")>> : a \in ShuffleOperands,
                                   b \in ShuffleOperands,
                                   c \in ShuffleOperands}

ListLines ==
    UNION {{<<ListLit(xs)>>,
            <<ListLit(xs), Op("Print")>>,
            <<ListLit(xs), Op("Len")>>,
            <<ListLit(xs), Op("Dup")>>,
            <<PushInt(7), ListLit(xs), Op("Dup")>>,
            <<ListLit(xs), Inc1, Op("Map")>>,
            <<ListLit(xs), Rebind, Op("Map")>>,
            <<ListLit(xs), IsEven, Op("Filter")>>,
            <<ListLit(xs), PushInt(0), Plus, Op("Fold")>>,
            <<ListLit(xs), Plus, PushInt(0), Op("Fold")>>,
            <<ListLit(xs), PrintIt, Op("Foreach")>>} : xs \in IntLists}
    \cup {<<BoolListLit(bs), Rebind, Op("Filter")>> : bs \in BoolLists}

Say(n) == <<PushInt(n), Op("Print")>>
IfLines ==
    UNION {{<<PushBool(b), IfElse(Say(1), Say(2))>>,
            <<PushBool(b), If(Say(1))>>,
            <<PushBool(b), IfElse(<<>>, Say(2))>>,
            <<PushInt(5), PushBool(b),
              IfElse(<<PushInt(1), Op("Plus")>>,
                     <<PushInt(2), Op("Multiply")>>)>>,
            <<PushInt(5), PushBool(b), If(<<PushInt(1), Op("Plus")>>)>>,
            <<PushBool(b),
              IfElse(<<PushBool(b2), IfElse(Say(1), Say(2))>>,
                     <<PushBool(b2), If(Say(3))>>)>>}
           : b \in BOOLEAN, b2 \in BOOLEAN}

\* list literals whose elements are single pushes of more than one type
MixedLiterals ==
    {PushList(<<PushInt(1), PushBool(TRUE)>>),
     PushList(<<PushInt(1), PushBool(TRUE), PushBool(FALSE)>>),
     PushList(<<PushBool(TRUE), PushInt(1), PushBool(FALSE), PushInt(2)>>),
     PushList(<<ListLit(<<1>>), BoolListLit(<<TRUE>>)>>),
     PushList(<<ListLit(<<1>>), PushInt(1)>>),
     PushList(<<Inc1, PushInt(1)>>),
     PushList(<<PushList(<<>>), PushBool(TRUE)>>),
     PushList(<<PushBool(TRUE), PushList(<<>>)>>)}

OtherLines ==
    {<<PushInt(1), PushInt(2), Op("Plus"), Op("Print")>>,
     <<PushInt(0), PushInt(1), Op("Minus")>>,
     <<PushList(<<>>), Op("Pop")>>,
     <<PushInt(5), PushFunction(<<Binding(<<"x">>, <<>>)>>), Op("Pop")>>,
     <<PushList(<<>>), PushInt(1), Op("Plus")>>,
     <<PushBool(TRUE), PushBool(FALSE), Op("And")>>,
     <<PushBool(TRUE), PushBool(FALSE), Op("Or")>>,
     <<PushBool(TRUE), Op("And")>>,
     <<PushInt(1), Op("Len")>>,
     <<PushBool(TRUE), Op("Len")>>,
     <<Inc1, Op("Len")>>,
     <<PushBool(TRUE), Op("Or")>>,
     <<DefineFunction("sq", <<Op("Dup"), Op("Multiply")>>), PushInt(3),
       Identifier("sq"), Op("Print")>>}

\* programs that print what they compute
PrintLines ==
    {<<PushInt(0), PushInt(1), Op("Minus"), Op("Print")>>,
     <<PushInt(2), PushInt(1), Op("Minus"), Op("Print")>>,
     <<PushInt(1), PushInt(2), Op("LessThan"), Op("Print")>>}
    \cup {<<BoolListLit(bs), Op("Print")>> : bs \in BoolLists}
    \cup UNION {{<<ListLit(xs), Inc1, Op("Map"), Op("Print")>>,
                 <<ListLit(xs), IsEven, Op("Filter"), Op("Print")>>,
                 <<ListLit(xs), Plus, PushInt(0), Op("Fold"), Op("Print")>>,
                 <<ListLit(xs), Plus, PushInt(1), Op("Fold"), Op("Print")>>}
                : xs \in IntLists}

\* quotations within quotations
NestedLines ==
    {<<PushFunction(<<PushFunction(Say(1)), Op("Do")>>), Op("Do")>>,
     <<PushFunction(<<Inc1>>), Op("Pop")>>,
     <<PushInt(1), Inc1, Op("Do"), Op("Print")>>}

\* a generic function applied to a quotation of itself
SelfAppliedLines ==
    {<<DefineFunction("twice", <<Op("Dup")>>),
       PushFunction(<<Identifier("twice")>>), Identifier("twice")>>,
     <<DefineFunction("twice", <<Op("Dup")>>), PushInt(1),
       Identifier("twice"), Op("Plus"), Op("Print")>>}

\* print and dup of a Bool and of a list, at top level, in the branch of an
\* if, in the body of a binding, in a quotation and in a named function
TypedOperands == {PushBool(TRUE), ListLit(<<1>>)}
Applied(v, kind) ==
    <<v, Op(kind)>> \o (IF kind = "Dup" THEN <<Op("Pop"), Op("Pop")>> ELSE <<>>)
Contexts(v, kind) ==
    {Applied(v, kind),
     <<PushBool(TRUE), If(Applied(v, kind))>>,
     <<v, Binding(<<"x">>, <<Identifier("x")>> \o Tail(Applied(v, kind)))>>,
     <<PushFunction(Applied(v, kind)), Op("Do")>>,
     <<DefineFunction("show", Applied(v, kind)), Identifier("show")>>}
ContextLines ==
    UNION {Contexts(v, kind) : v \in TypedOperands, kind \in {"Print", "Dup"}}

\* the lines a session can go on with after its first line
Fragments ==
    {<<PushInt(1)>>, <<PushBool(TRUE)>>, <<ListLit(<<1>>)>>,
     <<Op("Plus")>>, <<Op("Pop")>>, <<Op("Print")>>, <<Op("Dup")>>,
     <<PushInt(1), PushBool(TRUE), Op("Plus")>>,
     <<PushInt(7), ListLit(<<1>>), Op("Dup")>>}


\* quotations whose body leaves a list, alone and applied
QuotedListLines ==
    UNION {{<<PushFunction(<<ListLit(xs)>>)>>,
            <<DefineFunction("listed", <<ListLit(xs)>>), Identifier("listed"),
              PushInt(1), Op("Plus")>>} : xs \in IntLists \ {<<>>}}


\* a function of a free generic called at two types, and at one type twice
Identity == DefineFunction("id", <<Op("Identity")>>)
PolymorphicLines ==
    {<<Identity, a, Identifier("id"), b, Identifier("id")>> :
        a \in ShuffleOperands, b \in ShuffleOperands}


\* a name used after the binding form that bound it, in the same line and
\* in a later one
StaleNameLines ==
    {<<PushInt(1), Binding(<<"x">>, <<Identifier("x")>>), Identifier("x")>>,
     <<PushInt(1), Binding(<<"x">>, <<Identifier("x")>>)>>,
     <<Identifier("x")>>}


\* if ... else ... whose branches have ground effects, equal or not: in the
\* number of ins and outs, and in a type
Branches ==
    {<<>>, <<PushInt(1), Op("Plus")>>, <<Op("Not")>>,
     <<PushInt(2), Op("Multiply")>>}
BranchLines ==
    {<<PushInt(5), PushBool(TRUE), IfElse(body, else_body)>> :
        body \in Branches, else_body \in Branches}


\* an if and a binding form that open the body of a function, after
\* nothing and after a value of the surrounding code
TakingForms == {If(<<>>), Binding(<<"x">>, <<Identifier("x")>>)}
TakingLines ==
    UNION {{<<DefineFunction("f", <<form>>)>>,
            <<PushBool(TRUE), DefineFunction("f", <<form>>)>>}
           : form \in TakingForms}


\* a function whose body unifies two unbound generics (the output of the
\* first dup with the input of the second), called at a concrete type
LinkedLines ==
    UNION {{<<DefineFunction("thrice", <<Op("Dup"), Op("Dup")>>), a,
              Identifier("thrice")>>,
            <<DefineFunction("thrice", <<Op("Dup"), Op("Dup")>>), a,
              Identifier("thrice"), Op("Not")>>} : a \in ShuffleOperands}

\* functions whose body calls in its turn: another function, a quotation,
\* and the quotation of a foreach
NestedCallLines ==
    {defs \o <<Identifier("twice")>> \o Say(2) :
        defs \in {<<DefineFunction("show", Say(1)),
                    DefineFunction("twice", <<Identifier("show")>>)>>,
                  <<DefineFunction("twice",
                                   <<PushFunction(Say(1)), Op("Do")>>)>>,
                  <<DefineFunction("twice",
                                   <<ListLit(<<1, 1>>), PrintIt,
                                     Op("Foreach")>>)>>}}

\* the loops of map, filter, fold and foreach over blocks that print the
\* element they are called with, so that the output tells the calls
Traced(ops) == PushFunction(<<Op("Dup"), Op("Print")>> \o ops)
TracedLines ==
    UNION {{<<ListLit(xs), Traced(<<PushInt(1), Op("Plus")>>), Op("Map")>>,
            <<ListLit(xs), Traced(<<PushInt(2), Op("Modulo"), PushInt(0),
                                    Op("Equals")>>), Op("Filter")>>,
            <<ListLit(xs), Traced(<<Op("Plus")>>), PushInt(0), Op("Fold")>>,
            <<ListLit(xs), Traced(<<Op("Pop")>>), Op("Foreach")>>}
           : xs \in IntLists}

Lines == ShuffleLines \cup ListLines \cup IfLines \cup OtherLines
            \cup Fragments \cup {<<l>> : l \in MixedLiterals} \cup PrintLines
            \cup NestedLines \cup SelfAppliedLines \cup ContextLines
            \cup QuotedListLines
            \cup PolymorphicLines
            \cup StaleNameLines
            \cup BranchLines
            \cup TakingLines
            \cup LinkedLines
            \cup NestedCallLines
            \cup TracedLines

\* the source files that are run
Files == IfLines \cup OtherLines \cup Fragments
            \cup {<<l>> : l \in MixedLiterals} \cup PrintLines
            \cup NestedLines \cup SelfAppliedLines \cup ContextLines
            \cup QuotedListLines
            \cup PolymorphicLines
            \cup StaleNameLines
            \cup BranchLines
            \cup TakingLines
            \cup LinkedLines
            \cup NestedCallLines
            \cup TracedLines

(***************************************************************************)
(* repl.rs: the stack display that follows a run                           *)
(***************************************************************************)
Shown(text, panic) == [text |-> text, panic |-> panic]

\* the decimal form of a word; a wrapped word -k reads 2^64-k
WordText(value) ==
    IF value < 0 THEN "2^64" \o ToString(value) ELSE ToString(value)

RECURSIVE print_value(_, _, _, _)
RECURSIVE print_elements(_, _, _, _, _, _)
\* the loop of the List arm of print_value
print_elements(value, length, i, el_type, vm, c) ==
    IF i > length THEN Shown(<<>>, FALSE)
    ELSE IF ~InHeap(vm, value + i) THEN Shown(<<>>, TRUE)
    ELSE LET e == print_value(vm.heap[value + i + 1], el_type, vm, c)
         IN IF e.panic THEN e
            ELSE LET rest == print_elements(value, length, i + 1, el_type,
                                            vm, c)
                 IN Shown(e.text \o rest.text, rest.panic)

print_value(value, type_kind, vm, c) ==
    CASE type_kind.k = "Bool" ->
            Shown(<<IF ULt(0, value) THEN "true" ELSE "false">>, FALSE)
      [] type_kind.k = "Int" -> Shown(<<WordText(value)>>, FALSE)
      [] type_kind.k = "List" ->
            IF ~InHeap(vm, value) \/ vm.heap[value + 1] < 0
            THEN Shown(<<>>, TRUE)
            ELSE LET r == print_elements(value, vm.heap[value + 1], 1,
                                         type_kind.el, vm, c)
                 IN Shown(<<"[">> \o r.text \o <<"]">>, r.panic)
      [] type_kind.k = "Block" -> Shown(<<"fn">>, FALSE)
      [] type_kind.k = "Generic" ->
            IF erase(c, type_kind) = Overflow THEN Shown(<<>>, TRUE)
            ELSE IF erase(c, type_kind) = None THEN Shown(<<"<?>">>, FALSE)
            ELSE print_value(value, erase(c, type_kind), vm, c)

RECURSIVE print_stack(_, _, _)
\* the loop over zip(&interpreter.stack, &type_checker.type_stack)
print_stack(vm, c, i) ==
    IF i > Min(Len(vm.stack), Len(c.type_stack)) THEN Shown(<<>>, FALSE)
    ELSE LET e == print_value(vm.stack[i], c.type_stack[i].t, vm, c)
         IN IF e.panic THEN e
            ELSE LET rest == print_stack(vm, c, i + 1)
                 IN Shown(e.text \o rest.text, rest.panic)

(***************************************************************************)
(* The session: repl.rs repl_mode, and the run of one source file          *)
(***************************************************************************)
VARIABLES
    type_checker,   \* the TypeChecker of the session
    lowerer,        \* the Lowerer of the session
    interpreter,    \* the BytecodeInterpreter of the session
    mode,           \* "repl" or "file"
    phase,          \* where the driver stands: "prompt", "start", "running",
                    \* "done", "rejected", "quit", or the panic that ended it
    lines_read,     \* the number of lines read so far
    line,           \* the ops of the last line read
    shown,          \* the diagnostics displayed for the last line
    typed_ops,      \* the typed ops of the last line, when it was accepted
    printed,        \* what the last line has written to standard output
    steps,          \* the instructions the last line has executed
    executed,       \* the rom addresses of these instructions
    codec           \* an instruction on its way through to_binary and decode

vars == <<type_checker, lowerer, interpreter, mode, phase, lines_read, line,
          shown, typed_ops, printed, steps, executed, codec>>

Init ==
    /\ mode \in {"repl", "file"}
    /\ type_checker = TypeCheckerNew(mode = "file")
    /\ lowerer = LowererNew
    /\ interpreter = BytecodeInterpreterNew
    /\ phase = IF mode = "repl" THEN "prompt" ELSE "start"
    /\ lines_read = 0
    /\ line = <<>>
    /\ shown = <<>>
    /\ typed_ops = <<>>
    /\ printed = <<>>
    /\ steps = 0
    /\ executed = {}
    /\ codec = [stage |-> "idle"]

\* the rewind as it would be if the checker that failed were kept
RewindForgotten(checkpoint, failed) == failed

\* type_checker = type_checker_checkpoint
Rewind(checkpoint, failed) == checkpoint

\* lowerer.lower(&typed_ops) and interpreter.interpret up to its loop
Launch(r) ==
    LET Lowered1(lw) ==
            /\ lowerer' = lw.l
            /\ IF lw.l.panic
               THEN /\ phase' = "lowerer_panic"
                    /\ UNCHANGED interpreter
               ELSE /\ phase' = "running"
                    /\ \E order \in IterationOrders(Len(lw.frames) - 1) :
                          interpreter' =
                              interpret_load(interpreter,
                                             Iterated(lw.frames, order),
                                             lw.l.constant_pool)
    IN /\ type_checker' = r.c
       /\ typed_ops' = r.typed_ops
       /\ shown' = <<>>
       /\ Lowered1(lower(lowerer, r.typed_ops))

\* one line of the loop of repl_mode, up to the loop of interpret
ReadLine(l) ==
    /\ mode = "repl"
    /\ phase = "prompt"
    /\ lines_read < MaxLines
    /\ lines_read' = lines_read + 1
    /\ line' = l
    /\ printed' = <<>>
    /\ steps' = 0
    /\ executed' = {}
    /\ UNCHANGED <<mode, codec>>
    /\ LET Typed(type_checker_checkpoint, r) ==
               IF r.c.panic
               THEN /\ phase' = "checker_panic"
                    /\ type_checker' = r.c
                    /\ UNCHANGED <<lowerer, interpreter, shown, typed_ops>>
               ELSE IF r.c.diagnostics # <<>>
               THEN /\ shown' = r.c.diagnostics
                    /\ type_checker' = Rewind(type_checker_checkpoint, r.c)
                    /\ typed_ops' = <<>>
                    /\ phase' = "prompt"
                    /\ UNCHANGED <<lowerer, interpreter>>
               ELSE Launch(r)
       IN Typed(type_checker, type_check(type_checker, Line(l)))

\* the run of a source file up to the loop of interpret
RunFile(l) ==
    /\ mode = "file"
    /\ phase = "start"
    /\ lines_read' = lines_read + 1
    /\ line' = l
    /\ UNCHANGED <<mode, printed, steps, executed, codec>>
    /\ LET Typed(r) ==
               IF r.c.panic
               THEN /\ phase' = "checker_panic"
                    /\ type_checker' = r.c
                    /\ UNCHANGED <<lowerer, interpreter, shown, typed_ops>>
               ELSE IF r.c.diagnostics # <<>>
               THEN /\ shown' = r.c.diagnostics
                    /\ type_checker' = r.c
                    /\ phase' = "rejected"
                    /\ UNCHANGED <<lowerer, interpreter, typed_ops>>
               ELSE Launch(r)
       IN Typed(type_check(type_checker, Line(l)))

\* one turn of the loop of interpret; an overflowing operation panics in a
\* build with overflow checks and wraps in a build without
Step ==
    /\ phase = "running"
    /\ interpreter.pc < Len(interpreter.rom)
    /\ steps < MaxSteps
    /\ \E wraps \in BOOLEAN :
          LET Stepped(e) ==
                  /\ interpreter' = e.vm
                  /\ printed' = printed \o e.printed
                  /\ phase' = CASE e.vm.status = "ok" -> "running"
                                [] e.vm.status = "panic" -> "vm_panic"
                                [] OTHER -> "beyond"
          IN Stepped(interpret_step(interpreter, wraps))
    /\ steps' = steps + 1
    /\ executed' = executed \cup {interpreter.pc}
    /\ UNCHANGED <<type_checker, lowerer, mode, lines_read, line, shown,
                   typed_ops, codec>>

\* the end of the loop of interpret: the REPL displays the stack and
\* prompts again, the run of a file is over
Finish ==
    /\ phase = "running"
    /\ interpreter.pc >= Len(interpreter.rom)
    /\ IF mode = "file"
       THEN /\ phase' = "done"
            /\ UNCHANGED printed
       ELSE LET Displayed(d) ==
                    /\ phase' = IF d.panic THEN "display_panic"
                                ELSE "prompt"
                    /\ printed' = IF interpreter.stack = <<>> THEN printed
                                  ELSE Append(printed,
                                              Printed("stack", d.text))
            IN Displayed(print_stack(interpreter, type_checker, 1))
    /\ UNCHANGED <<type_checker, lowerer, interpreter, mode, lines_read,
                   line, shown, typed_ops, steps, executed, codec>>

\* the line "quit"
Quit ==
    /\ mode = "repl"
    /\ phase = "prompt"
    /\ phase' = "quit"
    /\ UNCHANGED <<type_checker, lowerer, interpreter, mode, lines_read,
                   line, shown, typed_ops, printed, steps, executed, codec>>

Next ==
    \/ \E l \in (IF lines_read = 0 THEN Lines ELSE Fragments) : ReadLine(l)
    \/ \E l \in Files : RunFile(l)
    \/ Step
    \/ Finish
    \/ Quit

Spec == Init /\ [][Next]_vars

(***************************************************************************)
(* lowerer.rs: an instruction written by to_binary into the rom and read   *)
(* back by decode, as interpret does for every instruction it loads        *)
(***************************************************************************)
\* every variant of ByteCodeInstruction, with every operand of the bound
Instructions ==
    {I0(m) : m \in Mnemonics \ WithOperand}
    \cup {Ins(m, v) : m \in WithOperand, v \in 0..MaxOperand}

\* the words of the rom that follow the instruction
Followers == {<<>>, <<0>>, <<MaxOperand, 1>>}

CodecInit ==
    /\ mode = "codec"
    /\ type_checker = TypeCheckerNew(FALSE)
    /\ lowerer = LowererNew
    /\ interpreter = BytecodeInterpreterNew
    /\ phase = "codec"
    /\ lines_read = 0
    /\ line = <<>>
    /\ shown = <<>>
    /\ typed_ops = <<>>
    /\ printed = <<>>
    /\ steps = 0
    /\ executed = {}
    /\ codec \in {[stage |-> "instruction", ins |-> i] : i \in Instructions}

\* for word in &instruction.clone().to_binary() { self.rom.push(*word) }
Encode(following) ==
    /\ codec.stage = "instruction"
    /\ codec' = [stage |-> "binary", ins |-> codec.ins,
                 words |-> to_binary(codec.ins) \o following]
    /\ UNCHANGED <<type_checker, lowerer, interpreter, mode, phase,
                   lines_read, line, shown, typed_ops, printed, steps,
                   executed>>

\* ByteCodeInstruction::decode(opcode, &self.rom[self.pc + 1..])
Decode ==
    /\ codec.stage = "binary"
    /\ codec' = [stage |-> "decoded", ins |-> codec.ins,
                 words |-> codec.words,
                 out |-> decode(codec.words[1], Tail(codec.words))]
    /\ UNCHANGED <<type_checker, lowerer, interpreter, mode, phase,
                   lines_read, line, shown, typed_ops, printed, steps,
                   executed>>

CodecNext ==
    \/ \E following \in Followers : Encode(following)
    \/ Decode

CodecSpec == CodecInit /\ [][CodecNext]_vars

(***************************************************************************)
(* What the claims speak of                                                *)
(***************************************************************************)
Panics == {"checker_panic", "lowerer_panic", "vm_panic", "display_panic"}

\* the last line read was checked without a diagnostic
Accepted == lines_read >= 1 /\ shown = <<>> /\ phase # "checker_panic"

\* the loop of interpret has ended for the last line read
MainEnded ==
    /\ Accepted
    /\ phase \in {"running", "prompt", "done", "display_panic"}
    /\ interpreter.pc >= Len(interpreter.rom)

\* the session has read one line of S, at the prompt of the REPL
FirstLine(S) == mode = "repl" /\ lines_read = 1 /\ line \in S

\* the words a literal list of integers or booleans holds
WordOf(op) == IF op.kind = "PushBool" THEN (IF op.v THEN 1 ELSE 0) ELSE op.v
WordsOf(list) == [i \in 1..Len(list.ops) |-> WordOf(list.ops[i])]

\* the heap cells of a list of words
Cells(ws) == <<Len(ws)>> \o ws

RECURSIVE Sum(_)
Sum(ws) == IF ws = <<>> THEN 0 ELSE ws[1] + Sum(Tail(ws))

\* C1 as stated: after a shuffler the type stack lists, bottom to top, the
\* types of the words the operand stack holds (the Int operand is the word
\* 2, the Bool operand the word 1)
WordOfType(w, t) == (t = IntT /\ w = 2) \/ (t = Bool /\ w = 1)
C1_ShufflersAgree ==
    (FirstLine(ShuffleLines) /\ MainEnded)
    => /\ Len(interpreter.stack) = Len(type_checker.type_stack)
       /\ \A i \in 1..Len(interpreter.stack) :
             WordOfType(interpreter.stack[i],
                        erase(type_checker, type_checker.type_stack[i].t))

\* C2 as stated: fold over [list, accumulator, block] is checked without a
\* diagnostic, never panics, and leaves the sum of the list as the only value
FoldLines ==
    {<<ListLit(xs), PushInt(0), Plus, Op("Fold")>> : xs \in IntLists}
C2_FoldOfListAccBlock ==
    FirstLine(FoldLines)
    => /\ shown = <<>>
       /\ phase \notin Panics
       /\ MainEnded => interpreter.stack = <<Sum(WordsOf(line[1]))>>

\* C3 as stated: map over a list of n words and a block of effect [a -- b]
\* never panics and leaves one pointer to a new list of the n results after
\* the cells of the input list, which are unchanged
MapLines ==
    {<<ListLit(xs), blk, Op("Map")>> : xs \in IntLists, blk \in {Inc1, Rebind}}
BlockResult(blk, x) == IF blk = Inc1 THEN x + 1 ELSE x
C3_MapBuildsTheImage ==
    FirstLine(MapLines)
    => /\ shown = <<>>
       /\ phase \notin Panics
       /\ MainEnded =>
            LET ws == WordsOf(line[1])
            IN /\ interpreter.stack = <<Len(ws) + 1>>
               /\ interpreter.heap =
                    Cells(ws) \o Cells([i \in 1..Len(ws) |->
                                           BlockResult(line[2], ws[i])])

\* C4 as stated: filter never panics and leaves a pointer to a new list of
\* exactly the words for which the predicate block returns true, in order
FilterLines ==
    {<<ListLit(xs), IsEven, Op("Filter")>> : xs \in IntLists}
    \cup {<<BoolListLit(bs), Rebind, Op("Filter")>> : bs \in BoolLists}
Passes(blk, x) == IF blk = IsEven THEN x % 2 = 0 ELSE x # 0
C4_FilterKeepsThePassing ==
    FirstLine(FilterLines)
    => /\ shown = <<>>
       /\ phase \notin Panics
       /\ MainEnded =>
            LET ws == WordsOf(line[1])
            IN /\ interpreter.stack = <<Len(ws) + 1>>
               /\ interpreter.heap =
                    Cells(ws) \o Cells(SelectSeq(ws, LAMBDA x :
                                                   Passes(line[2], x)))

\* C5 as stated: dup of a list never panics and leaves [original new], new
\* a fresh list of the same words, above an unchanged rest of the stack
DupLines ==
    UNION {{<<ListLit(xs), Op("Dup")>>,
            <<PushInt(7), ListLit(xs), Op("Dup")>>} : xs \in IntLists}
C5_DupCopiesTheList ==
    FirstLine(DupLines)
    => /\ shown = <<>>
       /\ phase \notin Panics
       /\ MainEnded =>
            LET ws == WordsOf(line[Len(line) - 1])
                below == IF Len(line) = 3 THEN <<7>> ELSE <<>>
            IN /\ interpreter.stack = below \o <<0, Len(ws) + 1>>
               /\ interpreter.heap = Cells(ws) \o Cells(ws)

\* C6 as stated: when main ends after an accepted line, the operand stack
\* is as deep as the type stack, and empty after an accepted file
C6_DepthsAgree ==
    MainEnded
    => /\ Len(interpreter.stack) = Len(type_checker.type_stack)
       /\ mode = "file" => interpreter.stack = <<>>

\* C7 as stated: the typed ops of an accepted program hold no generic that
\* the erasure table leaves unbound
RECURSIVE HasFreeGeneric(_, _)
HasFreeGeneric(c, t) ==
    CASE t.k = "Generic" ->
            \/ c.erasures[t.i + 1] = None
            \/ HasFreeGeneric(c, c.erasures[t.i + 1])
      [] t.k = "List" -> HasFreeGeneric(c, t.el)
      [] t.k = "Block" ->
            \E i \in 1..Len(t.ins \o t.outs) :
                HasFreeGeneric(c, (t.ins \o t.outs)[i])
      [] OTHER -> FALSE
C7_TypedOpsAreGround ==
    Accepted
    => \A k \in 1..Len(typed_ops) :
          \A i \in 1..Len(typed_ops[k].ins \o typed_ops[k].outs) :
              ~HasFreeGeneric(type_checker,
                              (typed_ops[k].ins \o typed_ops[k].outs)[i])

(***************************************************************************)
(* C8: the branches of an if                                               *)
(***************************************************************************)
RECURSIVE Listing(_, _)
\* the instructions of rom from the address a on, each with its address
Listing(rom, a) ==
    IF a >= Len(rom) THEN <<>>
    ELSE LET Decoded(d) ==
                 <<[addr |-> a, ins |-> d.ins]>> \o Listing(rom, a + d.width)
         IN Decoded(decode(rom[a + 1], SubSeq(rom, a + 2, Len(rom))))

\* main of the line, whose last op is the if and whose last instruction is
\* therefore the end label
Main == Listing(interpreter.rom, MapGet(interpreter.functions, "main"))
IndexOf(listing, ins) == CHOOSE i \in 1..Len(listing) : listing[i].ins = ins
\* the JumpIfFalse of the outermost if is the first of main
CondIndex(m) ==
    CHOOSE i \in 1..Len(m) :
        /\ m[i].ins.op = "JumpIfFalse"
        /\ \A k \in 1..(i - 1) : m[k].ins.op # "JumpIfFalse"
TargetIndex(m) == IndexOf(m, Ins("Label", m[CondIndex(m)].ins.arg))
\* the instructions run when the condition is not zero, and when it is
ThenIndexes(m) == (CondIndex(m) + 1)..(TargetIndex(m) - 1)
ElseIndexes(m) == (TargetIndex(m) + 1)..(Len(m) - 1)
Addresses(m, S) == {m[i].addr : i \in S}
\* every instruction of a straight-line branch has run; of a branch with
\* an if of its own, the first and the last
Ran(m, S) ==
    IF \A i \in S : m[i].ins.op \notin {"JumpIfFalse", "Label"}
    THEN Addresses(m, S) \subseteq executed
    ELSE \A i \in S : (i - 1 \notin S \/ i + 1 \notin S)
                         => m[i].addr \in executed

RECURSIVE Eval(_, _)
RECURSIVE EvalOp(_, _)
\* what the ops of an if line mean: the stack and the output they leave
Eval(ops, s) == IF ops = <<>> THEN s ELSE Eval(Tail(ops), EvalOp(ops[1], s))
EvalOp(op, s) ==
    LET top == Last(s.st)
        under == Front(s.st)
    IN CASE op.kind \in {"PushInt", "PushBool"} ->
                [s EXCEPT !.st = Append(@, WordOf(op))]
         [] op.kind = "Plus" ->
                [s EXCEPT !.st = Append(Front(under), Last(under) + top)]
         [] op.kind = "Multiply" ->
                [s EXCEPT !.st = Append(Front(under), Last(under) * top)]
         [] op.kind = "Print" ->
                [st |-> under, out |-> Append(s.out, Printed("int", <<top>>))]
         [] op.kind = "If" ->
                IF top # 0 THEN Eval(op.body, [s EXCEPT !.st = under])
                ELSE IF op.has_else
                     THEN Eval(op.else_body, [s EXCEPT !.st = under])
                     ELSE [s EXCEPT !.st = under]

ProgramOutput == SelectSeq(printed, LAMBDA p : p.kind # "stack")
CondWord == WordOf(line[Len(line) - 1])

\* C8: an accepted if line never panics; the JumpIfFalse of its if pops the
\* condition word; no instruction of the branch the condition rules out is
\* ever executed; and when main ends the other branch has run, the end
\* label has been reached, and stack and output are those of that branch
C8_OneBranchRuns ==
    (lines_read = 1 /\ line \in IfLines /\ Accepted)
    => /\ phase \notin Panics
       /\ LET m == Main
              cond == m[CondIndex(m)].addr
              right == IF CondWord # 0 THEN ThenIndexes(m) ELSE ElseIndexes(m)
              wrong == IF CondWord # 0 THEN ElseIndexes(m) ELSE ThenIndexes(m)
              meant == Eval(line, [st |-> <<>>, out |-> <<>>])
          IN /\ (interpreter.pc = cond /\ cond \notin executed)
                   => Last(interpreter.stack) = CondWord
             /\ Addresses(m, wrong) \cap executed = {}
             /\ interpreter.pc >= Len(interpreter.rom)
                   => /\ cond \in executed
                      /\ Ran(m, right)
                      /\ m[Len(m)].ins.op = "Label"
                      /\ m[Len(m)].addr \in executed
                      /\ interpreter.stack = meant.st
                      /\ ProgramOutput = meant.out

\* both arms of C8 have happened: a false condition has run the else body
C8_Witness ==
    /\ line = <<PushBool(FALSE), IfElse(Say(1), Say(2))>>
    /\ MainEnded
    /\ ProgramOutput = <<Printed("int", <<2>>)>>

(***************************************************************************)
(* C9: the cells of a list literal                                         *)
(***************************************************************************)
\* the literal of the line, when nothing before it builds a list
LiteralIndex ==
    CHOOSE i \in 1..Len(line) :
        /\ line[i].kind = "PushList"
        /\ \A k \in 1..(i - 1) : line[k].kind \in {"PushInt", "PushBool"}
HasLiteral ==
    \E i \in 1..Len(line) :
        /\ line[i].kind = "PushList"
        /\ \A k \in 1..(i - 1) : line[k].kind \in {"PushInt", "PushBool"}
\* the next instruction is the first NewList of the line
AtFirstNewList ==
    /\ phase = "running"
    /\ interpreter.pc < Len(interpreter.rom)
    /\ interpreter.rom[interpreter.pc + 1] = get_opcode("NewList")
    /\ \A a \in executed : interpreter.rom[a + 1] # get_opcode("NewList")
\* NewList pushes a pointer to new cells: the length, then the elements
NewListLaysTheLiteral ==
    (Accepted /\ HasLiteral /\ AtFirstNewList)
    => LET ws == WordsOf(line[LiteralIndex])
           ptr == Last(interpreter'.stack)
       IN /\ phase' = "running"
          /\ ptr = Len(interpreter.heap)
          /\ Len(interpreter'.stack) =
                Len(interpreter.stack) - Len(ws)
          /\ interpreter'.heap = interpreter.heap \o Cells(ws)
\* no step of the session writes a cell the heap already had
HeapCellsKept ==
    /\ Len(interpreter'.heap) >= Len(interpreter.heap)
    /\ SubSeq(interpreter'.heap, 1, Len(interpreter.heap)) = interpreter.heap

\* C9: the NewList of a list literal of n elements pushes a pointer ptr
\* with heap[ptr] = n and heap[ptr+1+i] the i-th element in source order,
\* and no later step changes a cell that exists
C9_LiteralCellsAreKept == [][NewListLaysTheLiteral /\ HeapCellsKept]_vars

\* a literal has been laid out and the run has gone on to allocate more
C9_Witness ==
    /\ line = <<ListLit(<<1, 2>>), Inc1, Op("Map")>>
    /\ MainEnded
    /\ interpreter.heap = Cells(<<1, 2>>) \o Cells(<<2, 3>>)

(***************************************************************************)
(* C10: a rejected line of the REPL                                        *)
(***************************************************************************)
Diagnosed(c, l) ==
    LET Typed(r) == ~r.c.panic /\ r.c.diagnostics # <<>>
    IN Typed(type_check(c, Line(l)))
\* the REPL reads a line whose check yields a diagnostic
ReadsRejected ==
    /\ mode = "repl"
    /\ phase = "prompt"
    /\ lines_read' = lines_read + 1
    /\ Diagnosed(type_checker, line')

\* C10: reading a line that is diagnosed leaves the checker, the lowerer
\* and the interpreter as they were, shows the diagnostics and prompts again
C10_RejectedLineLeavesNoTrace ==
    [][ReadsRejected
         => /\ type_checker' = type_checker
            /\ lowerer' = lowerer
            /\ interpreter' = interpreter
            /\ shown' # <<>>
            /\ phase' = "prompt"]_vars

\* a line has been rejected after accepted ones, its check having pushed
\* onto a type stack that was not empty
C10_Witness ==
    /\ mode = "repl"
    /\ lines_read = 2
    /\ line = <<PushInt(1), PushBool(TRUE), Op("Plus")>>
    /\ shown # <<>>
    /\ Len(type_checker.type_stack) = 1
    /\ Len(interpreter.stack) = 1

(***************************************************************************)
(* C11: the residual type stack                                            *)
(***************************************************************************)
Unused(diagnostics) == SelectSeq(diagnostics, LAMBDA d : d.kind = "unused")
\* the kinds of op that push nothing
Consumers == {"Pop", "Print", "DefineFunction", "Foreach"}
\* the spans of the ops that push, at any depth of the ops
RECURSIVE PushingSpans(_)
PushingSpans(ops) ==
    UNION {(IF ops[i].kind \in Consumers THEN {} ELSE {ops[i].span})
           \cup (CASE ops[i].kind \in {"PushList", "PushFunction"} ->
                         PushingSpans(ops[i].ops)
                   [] ops[i].kind \in {"DefineFunction", "Binding"} ->
                         PushingSpans(ops[i].body.ops)
                   [] ops[i].kind = "If" ->
                         PushingSpans(ops[i].body \o ops[i].else_body)
                   [] OTHER -> {}) : i \in 1..Len(ops)}
\* the place in the file of the op of the top level that holds a span
RECURSIVE TopLevel(_)
TopLevel(span) == IF span < 10 THEN span ELSE TopLevel(span \div 10)
\* the file has been checked: one diagnostic per entry of the type stack,
\* in the order of the stack, each with the span of its entry, which is the
\* span of an op of the file that pushes
FileReportsResidue ==
    (mode = "file" /\ lines_read = 1 /\ phase # "checker_panic")
    => LET st == type_checker.type_stack
       IN /\ Unused(type_checker.diagnostics) =
                [i \in 1..Len(st) |-> Diagnostic("unused", st[i].span)]
          /\ shown = type_checker.diagnostics
          /\ \A i \in 1..Len(st) :
                /\ st[i].span \in PushingSpans(Line(line))
                /\ i > 1 => TopLevel(st[i - 1].span) <= TopLevel(st[i].span)
\* the REPL never reports the residual stack
ReplReportsNoResidue ==
    mode = "repl"
    => /\ Unused(shown) = <<>>
       /\ Unused(type_checker.diagnostics) = <<>>
\* the entries a line leaves are there for the next line: a push goes on
\* top of them, a pop takes the topmost of them
PushedType(l) ==
    CASE l = <<PushInt(1)>> -> IntT
      [] l = <<PushBool(TRUE)>> -> Bool
      [] l = <<ListLit(<<1>>)>> -> List(IntT)
ReplKeepsResidue ==
    (mode = "repl" /\ lines_read' = lines_read + 1)
    => LET st == type_checker.type_stack
       IN /\ line' \in {<<PushInt(1)>>, <<PushBool(TRUE)>>, <<ListLit(<<1>>)>>}
                => type_checker'.type_stack =
                      Append(st, [t |-> PushedType(line'), span |-> 1])
          /\ (line' = <<Op("Pop")>> /\ st # <<>>)
                => /\ shown' = <<>>
                   /\ type_checker'.type_stack = Front(st)

\* C11: in file mode type_check appends one diagnostic for each entry left
\* on the type stack, with the span of the op that pushed the entry; in the
\* REPL it appends none and the entries stay on the stack for the next line
C11_ResidueReportedInFileMode ==
    /\ [](FileReportsResidue /\ ReplReportsNoResidue)
    /\ [][ReplKeepsResidue]_vars

\* a file has left three entries, two of them pushed by one op
C11_Witness ==
    /\ mode = "file"
    /\ line = <<PushInt(7), ListLit(<<1>>), Op("Dup")>>
    /\ phase = "rejected"
    /\ [i \in 1..Len(shown) |-> shown[i].span] = <<1, 3, 3>>

(***************************************************************************)
(* C12: and, or                                                            *)
(***************************************************************************)
TypesOf(type_stack) == [i \in 1..Len(type_stack) |-> type_stack[i].t]
HasDiagnostic(diagnostics, kind) ==
    \E i \in 1..Len(diagnostics) : diagnostics[i].kind = kind

\* C12 as stated: and and or take two Bools off the type stack and push
\* one, and either of them over a single Bool is a stack underflow
C12_AndOrTakeTwoBools ==
    /\ FirstLine({<<PushBool(TRUE), PushBool(FALSE), Op(k)>>
                    : k \in {"And", "Or"}})
          => /\ shown = <<>>
             /\ TypesOf(type_checker.type_stack) = <<Bool>>
    /\ FirstLine({<<PushBool(TRUE), Op(k)>> : k \in {"And", "Or"}})
          => HasDiagnostic(shown, "empty")

(***************************************************************************)
(* C13: len                                                                *)
(***************************************************************************)
NonListLenLines ==
    {<<PushInt(1), Op("Len")>>, <<PushBool(TRUE), Op("Len")>>,
     <<Inc1, Op("Len")>>}

\* C13 as stated: len over an Int, a Bool or a Block is a type mismatch, so
\* that no instruction of such a line is ever executed
C13_LenWantsAList ==
    FirstLine(NonListLenLines)
    => /\ HasDiagnostic(shown, "mismatch")
       /\ phase = "prompt"
       /\ steps = 0

(***************************************************************************)
(* C14: the round trip of an instruction                                   *)
(***************************************************************************)
\* C14: decode of the first word of to_binary(i) and of the words after it
\* returns i and the number of words of to_binary(i), whichever words follow
C14_DecodeInvertsToBinary ==
    codec.stage = "decoded"
    => codec.out = [ins |-> codec.ins, width |-> Len(to_binary(codec.ins))]

\* an instruction with an operand has been read back from before other words
C14_Witness ==
    /\ codec.stage = "decoded"
    /\ codec.ins = Ins("JumpIfFalse", 2)
    /\ codec.words = <<30, 2, MaxOperand, 1>>
    /\ codec.out.width = 2

(***************************************************************************)
(* C15: a list literal of elements of more than one type                   *)
(***************************************************************************)
RECURSIVE LiteralType(_)
\* the type a pushed literal has; the element of an empty list is open
LiteralType(op) ==
    CASE op.kind = "PushInt" -> IntT
      [] op.kind = "PushBool" -> Bool
      [] op.kind = "PushList" ->
            IF op.ops = <<>> THEN List([k |-> "Open"])
            ELSE List(LiteralType(op.ops[1]))
      [] op.kind = "PushFunction" -> [k |-> "Block"]
RECURSIVE Unifiable(_, _)
Unifiable(t, u) ==
    \/ t.k = "Open"
    \/ u.k = "Open"
    \/ /\ t.k = u.k
       /\ t.k = "List" => Unifiable(t.el, u.el)
\* the elements that disagree with the type the first element fixes
Disagreeing(list) ==
    {i \in 2..Len(list.ops) :
        ~Unifiable(LiteralType(list.ops[1]), LiteralType(list.ops[i]))}

\* C15 as stated: the check of such a literal does not panic, reports one
\* mismatch per disagreeing element, at that element, and leaves one List
\* type on the type stack
C15_OneDiagnosticPerStrayElement ==
    (lines_read = 1 /\ Len(line) = 1 /\ line[1] \in MixedLiterals)
    => /\ phase # "checker_panic"
       /\ {d.span : d \in {shown[i] : i \in {j \in 1..Len(shown) :
                                  shown[j].kind = "mismatch"}}}
             = {10 + i : i \in Disagreeing(line[1])}
       /\ Len(SelectSeq(shown, LAMBDA d : d.kind = "mismatch"))
             = Cardinality(Disagreeing(line[1]))
       /\ Len(SelectSeq(shown, LAMBDA d : d.kind \notin {"mismatch", "unused"}))
             = 0
       /\ mode = "file"
             => /\ Len(type_checker.type_stack) = 1
                /\ type_checker.type_stack[1].t.k = "List"

(***************************************************************************)
(* C16: the two interpreters                                               *)
(***************************************************************************)
\* the ops the claim builds its programs from
PrintingKinds ==
    {"PushInt", "PushBool", "PushList", "PushFunction", "Plus", "Minus",
     "Multiply", "Divide", "Modulo", "LessThan", "LessThanEquals",
     "GreaterThan", "GreaterThanEquals", "Equals", "Dup", "Swap", "Over",
     "Rot", "Pop", "Print", "Map", "Filter", "Fold", "Foreach",
     "DefineFunction", "Identifier"}
RECURSIVE OnlyPrints(_)
OnlyPrints(ops) ==
    \A i \in 1..Len(ops) :
        /\ ops[i].kind \in PrintingKinds
        /\ ops[i].kind \in {"PushList", "PushFunction"} => OnlyPrints(ops[i].ops)
        /\ ops[i].kind = "DefineFunction" => OnlyPrints(ops[i].body.ops)

\* a line the VM has printed, as tokens
VmLine(p) ==
    CASE p.kind = "int" -> <<WordText(p.v[1])>>
      [] p.kind = "bool" -> <<IF p.v[1] = 1 THEN "true" ELSE "false">>
      [] p.kind = "list" ->
            <<"[">> \o [i \in 1..Len(p.v) |-> WordText(p.v[i])] \o <<"]">>
VmLines == [i \in 1..Len(ProgramOutput) |-> VmLine(ProgramOutput[i])]

\* C16 as stated: an accepted program of these ops that the tree-walking
\* interpreter runs to its end is run to its end by the VM as well, and the
\* VM has then printed the same lines
C16_InterpretersPrintTheSame ==
    (lines_read = 1 /\ Accepted /\ OnlyPrints(line))
    => LET Same(t) ==
               ~t.panic
               => /\ phase \notin {"lowerer_panic", "vm_panic", "beyond"}
                  /\ MainEnded => VmLines = t.out
       IN Same(Interpreter_interpret(InterpreterNew, line, 1))

(***************************************************************************)
(* C17: the functions of the quotations                                    *)
(***************************************************************************)
RECURSIVE Quotations(_)
RECURSIVE QuotationsIn(_, _)
\* the number of quotations in a sequence of ops, nested ones included
QuotationsIn(ops, i) ==
    IF i > Len(ops) THEN 0 ELSE Quotations(ops[i]) + QuotationsIn(ops, i + 1)
Quotations(op) ==
    CASE op.kind = "PushFunction" -> 1 + QuotationsIn(op.ops, 1)
      [] op.kind = "PushList" -> QuotationsIn(op.ops, 1)
      [] op.kind \in {"DefineFunction", "Binding"} ->
            QuotationsIn(op.body.ops, 1)
      [] op.kind = "If" ->
            QuotationsIn(op.body, 1) + QuotationsIn(op.else_body, 1)
      [] OTHER -> 0

\* the entries of the constant pool and of fns_to_emit that are blocks
IsBlockName(name) == \E i \in 0..8 : name = BlockName(i)
BlockIndexes ==
    {i \in 1..Len(lowerer.constant_pool) :
        IsBlockName(lowerer.constant_pool[i])}
BlockFunctions ==
    {i \in 1..Len(lowerer.fns_to_emit) :
        IsBlockName(lowerer.fns_to_emit[i][1])}
\* the PushBlock operands of a sequence of instructions
PushedBlocks(code) ==
    {code[i].arg : i \in {j \in 1..Len(code) : code[j].op = "PushBlock"}}

\* C17 as stated: after the lowering of a line, every quotation of the line
\* has a function and a constant-pool index of its own, the names in the
\* pool differ from one another, and a top-level quotation's PushBlock
\* carries an index whose name maps to the code of that quotation's body
C17_EveryQuotationHasItsFunction ==
    (lines_read = 1 /\ Accepted /\ phase # "lowerer_panic")
    => /\ Cardinality(BlockFunctions) = QuotationsIn(line, 1)
       /\ Cardinality(BlockIndexes) = QuotationsIn(line, 1)
       /\ \A i, j \in 1..Len(lowerer.constant_pool) :
             i # j => lowerer.constant_pool[i] # lowerer.constant_pool[j]
       /\ \A k \in 1..Len(typed_ops) :
             typed_ops[k].kind = "PushBlock"
             => \E x \in 0..(Len(lowerer.constant_pool) - 1) :
                   /\ MapHas(lowerer.fns_to_emit, lowerer.constant_pool[x + 1])
                   /\ MapGet(lowerer.fns_to_emit, lowerer.constant_pool[x + 1])
                        = Append(lower_ops(LowererNew, typed_ops[k].ops).code,
                                 I0("Return"))
                   /\ x \in PushedBlocks(
                                lower_ops(LowererNew, typed_ops).code)

(***************************************************************************)
(* C18: the erasure table                                                  *)
(***************************************************************************)
\* no generic is bound, directly or through other generics, to a type that
\* contains it
Acyclic(c) ==
    \A i \in 0..(Len(c.erasures) - 1) : ~Loops(c, Generic(i), {})

\* C18 as stated: the erasure table of the checker is acyclic whatever has
\* been checked, calls of generic functions included, so that the check of
\* a line never ends in an erase that does not return
C18_ErasuresStayAcyclic ==
    /\ Acyclic(type_checker)
    /\ line \in SelfAppliedLines => phase # "checker_panic"

(***************************************************************************)
(* C19: the locals of a loop                                               *)
(***************************************************************************)
\* the lines that end in a higher-order built-in applied to a quotation
HigherOrderKinds == {"Map", "Filter", "Fold", "Foreach"}
HigherOrderLines ==
    {l \in ListLines : /\ l[Len(l)].kind \in HigherOrderKinds
                       /\ \E i \in 1..Len(l) : l[i].kind = "PushFunction"}

\* the slots the expansion of the last op of the line has allocated: main is
\* lowered from locals_count 0
ExpansionSlots ==
    0..(IF line[Len(line)].kind \in {"Filter", "Fold"} THEN 3 ELSE 2)

\* the next instruction is one of a called block, not of main
InCalledBlock ==
    interpreter.pc < MapGet(interpreter.functions, "main")

\* C19 as stated: while the loop of a higher-order built-in is running, no
\* instruction of the block it calls changes a local slot of the expansion
BlockKeepsTheLoopLocals ==
    (/\ line \in HigherOrderLines
     /\ phase = "running"
     /\ interpreter.pc < Len(interpreter.rom)
     /\ InCalledBlock)
    => \A slot \in ExpansionSlots :
           interpreter'.locals[slot + 1] = interpreter.locals[slot + 1]
C19_BlockKeepsTheLoopLocals == [][BlockKeepsTheLoopLocals]_vars

(***************************************************************************)
(* C20: print and dup by the type of the operand                           *)
(***************************************************************************)
\* the instructions of the whole program of the line, functions included
Program == Listing(interpreter.rom, 0)
Emitted(op) == \E i \in 1..Len(Program) : Program[i].ins.op = op

\* the op the line applies and the literal it applies it to
AppliedTo(v, kind) == line \in Contexts(v, kind)
\* the instruction that only the lowering by the type of the operand emits:
\* ListGet is of the copy loop of duplicate_list alone in these lines
Wanted(v, kind) ==
    CASE kind = "Dup" -> "ListGet"
      [] v.kind = "PushBool" -> "PrintBool"
      [] OTHER -> "PrintList"
TypedOpCases ==
    {<<v, kind>> : v \in TypedOperands, kind \in {"Print", "Dup"}}
        \ {<<PushBool(TRUE), "Dup">>}

\* C20 as stated: the print of a Bool is lowered to PrintBool, the print of
\* a list to PrintList and the dup of a list to the copy of the list, at top
\* level, in a branch, in a binding body, in a quotation and in a function
LoweredByType ==
    \A c \in TypedOpCases :
        (/\ lines_read = 1
         /\ AppliedTo(c[1], c[2])
         /\ Accepted
         /\ phase \in {"running", "prompt", "done"})
        => Emitted(Wanted(c[1], c[2]))
C20_LoweredByTypeEverywhere == LoweredByType

(***************************************************************************)
(* C21: the effect of a quotation                                          *)
(***************************************************************************)
\* C21 as stated: the quotation whose body is a literal list of integers has
\* the effect [ -- List Int], and a function of that body leaves a list, to
\* which an integer cannot be added
BlockOfList == Block(<<>>, <<List(IntT)>>)
C21_QuotationLeavesAList ==
    (lines_read = 1 /\ line \in QuotedListLines)
    => /\ (Accepted /\ phase \notin Panics /\ Len(line) = 1)
             => typed_ops[1].outs = <<BlockOfList>>
       /\ line[Len(line)].kind = "Plus" => shown # <<>>

(***************************************************************************)
(* C22: calls of a generic function                                        *)
(***************************************************************************)
\* the types of the type stack, erased, bottom to top
StackTypes ==
    [i \in 1..Len(type_checker.type_stack) |->
        erase(type_checker, type_checker.type_stack[i].t)]

\* C22 as stated: two calls of fn id ( . ), at the same type or at two
\* types, give no diagnostic, and each call leaves the type of its argument
C22_GenericFunctionAtTwoTypes ==
    (lines_read = 1 /\ mode = "repl" /\ line \in PolymorphicLines
        /\ phase # "checker_panic")
    => /\ shown = <<>>
       /\ StackTypes = <<LiteralType(line[2]), LiteralType(line[4])>>

(***************************************************************************)
(* C23: the names of a binding form                                        *)
(***************************************************************************)
\* the last op of the line is the name x, outside every binding form
EndsInStaleName ==
    /\ lines_read >= 1
    /\ line \in StaleNameLines
    /\ line[Len(line)] = Identifier("x")
    /\ phase # "checker_panic"

\* C23 as stated: a name used after its binding form has ended gives an
\* unknown-identifier diagnostic, and the lowerer never meets a Value op of
\* a name it has unbound
C23_NamesEndWithTheirForm ==
    EndsInStaleName
    => /\ \E i \in 1..Len(shown) : shown[i].kind = "unknown_identifier"
       /\ phase # "lowerer_panic"

(***************************************************************************)
(* C24: the branches of if ... else ...                                    *)
(***************************************************************************)
\* the effect the checker infers for a branch, <<ins, outs>>
BranchEffect(ops) ==
    LET Of(b) == <<b.op.ins, b.op.outs>>
    IN Of(type_check_block(TypeCheckerNew(FALSE), Line(ops), 0))

\* C24 as stated: when the effects of the two branches differ, in the
\* number of ins, in the number of outs or in a type, the line gets at least
\* one diagnostic
C24_UnequalBranchesAreReported ==
    (/\ lines_read = 1
     /\ line \in BranchLines
     /\ phase \notin {"start", "checker_panic"}
     /\ BranchEffect(line[3].body) # BranchEffect(line[3].else_body))
    => shown # <<>>

(***************************************************************************)
(* C25: a form that takes a value inside a quotation                       *)
(***************************************************************************)
\* the values the line pushes before it defines f
PushedBefore == [i \in 1..(Len(line) - 1) |-> LiteralType(line[i])]

\* C25 as stated: an if or a binding form that opens the body of a function
\* gives no diagnostic, leaves the type stack of the surrounding code as it
\* was, and becomes one input of the function: a Bool for fn f ( if ( ) )
C25_FormsTakeFromTheBlock ==
    (/\ lines_read = 1
     /\ mode = "repl"
     /\ line \in TakingLines
     /\ phase # "checker_panic")
    => /\ shown = <<>>
       /\ StackTypes = PushedBefore
       /\ MapHas(type_checker.functions, "f")
       /\ Len(MapGet(type_checker.functions, "f")[1]) = 1
       /\ line[Len(line)].body.ops[1].kind = "If"
            => MapGet(type_checker.functions, "f")[1] = <<Bool>>

(***************************************************************************)
(* C26: two unbound generics                                               *)
(***************************************************************************)
\* C26 as stated: dup dup unifies the unbound generic of the first dup, the
\* actual side, with that of the second, the expected side; once the call
\* has bound the first to the type of its argument the second erases to the
\* same type, so that the three copies have the type of the argument and a
\* not of a copy of an integer is a mismatch
C26_ExpectedFollowsActual ==
    (/\ lines_read = 1
     /\ mode = "repl"
     /\ line \in LinkedLines
     /\ phase # "checker_panic")
    => /\ Len(line) = 3 =>
            /\ shown = <<>>
            /\ StackTypes = [i \in 1..3 |-> LiteralType(line[2])]
       /\ (Len(line) = 4 /\ line[2] = PushInt(2)) => shown # <<>>

(***************************************************************************)
(* C27: the locals of a frame                                              *)
(***************************************************************************)
\* the frames the lowerer produces for the first line of a session
FirstFrames == lower(LowererNew, typed_ops).frames
UsesLocal(ins) == ins.op \in {"Load", "Store"}
FitsItsLocals(frame) ==
    \A i \in 1..Len(frame.instructions) :
        UsesLocal(frame.instructions[i])
            => frame.instructions[i].arg < frame.max_locals

\* C27 as stated: in every frame the lowerer produces, the index of every
\* Load and Store is smaller than the max_locals of the frame
C27_LocalsWithinMaxLocals ==
    (/\ lines_read = 1
     /\ Accepted
     /\ phase \notin {"start", "lowerer_panic"})
    => LET Fit(frames) == \A j \in 1..Len(frames) : FitsItsLocals(frames[j])
       IN Fit(FirstFrames)

(***************************************************************************)
(* C28: call and return                                                    *)
(***************************************************************************)
\* the instruction the next step of the VM executes, with its width
Fetched ==
    decode(interpreter.rom[interpreter.pc + 1],
           SubSeq(interpreter.rom, interpreter.pc + 2, Len(interpreter.rom)))
\* the step is one of the loop of interpret that does not end in a panic
Steps ==
    /\ phase = "running"
    /\ interpreter.pc < Len(interpreter.rom)
    /\ steps' = steps + 1
    /\ phase' = "running"
IsCall(ins) == ins.op \in {"CallStatic", "CallDynamic"}

\* a call saves the address of the instruction that follows it and leaves
\* the operand stack but for the function pointer a dynamic call pops
CallSaves ==
    (Steps /\ IsCall(Fetched.ins))
    => /\ interpreter'.rsp = interpreter.pc + Fetched.width
       /\ interpreter'.stack =
            IF Fetched.ins.op = "CallDynamic" THEN Front(interpreter.stack)
            ELSE interpreter.stack
\* no other instruction than a call and a Return writes the return slot
CalleeKeeps ==
    (Steps /\ ~IsCall(Fetched.ins) /\ Fetched.ins.op # "Return")
    => interpreter'.rsp = interpreter.rsp
\* Return goes to the saved address, clears the slot, keeps the stack
ReturnResumes ==
    (Steps /\ Fetched.ins.op = "Return")
    => /\ interpreter'.pc = interpreter.rsp
       /\ interpreter'.rsp = 0
       /\ interpreter'.stack = interpreter.stack

\* C28 as stated: a call saves the address that follows it, the callee that
\* calls nothing keeps it, and Return resumes there, clears the slot and
\* leaves the operand stack as the callee left it
C28_ReturnResumesAfterTheCall ==
    [][CallSaves /\ CalleeKeeps /\ ReturnResumes]_vars

\* ( true print ) do has called its block, which has printed and returned
\* to the end of main
C28_Witness ==
    /\ line = <<PushFunction(<<PushBool(TRUE), Op("Print")>>), Op("Do")>>
    /\ MainEnded
    /\ interpreter.rsp = 0
    /\ interpreter.stack = <<>>
    /\ Len(ProgramOutput) = 1

(***************************************************************************)
(* C29: the interpreter holds one return address.  A call made from the    *)
(* body of a called function replaces the saved address by one inside the  *)
(* functions, every Return clears it, and the Return that finds it cleared *)
(* (the one of the outer function) sets pc to 0, which lies before main:   *)
(* what main had left to do is not resumed, so the lines that call a       *)
(* function whose body calls never write what follows the call.            *)
(***************************************************************************)
MainStart == MapGet(interpreter.functions, "main")

InnerCallOverwrites ==
    (Steps /\ IsCall(Fetched.ins) /\ interpreter.pc < MainStart)
        => /\ interpreter'.rsp = interpreter.pc + Fetched.width
           /\ interpreter'.rsp < MainStart

ReturnClears ==
    (Steps /\ Fetched.ins.op = "Return") => interpreter'.rsp = 0

OuterReturnRestarts ==
    (Steps /\ Fetched.ins.op = "Return" /\ interpreter.rsp = 0)
        => /\ interpreter'.pc = 0
           /\ interpreter'.pc < MainStart

RestIsNotResumed ==
    (line \in NestedCallLines /\ Accepted /\ lines_read = 1)
        => /\ \A i \in 1..Len(ProgramOutput) :
                  ProgramOutput[i] # Printed("int", <<2>>)
           /\ ~MainEnded

C29_OneReturnAddress ==
    /\ []RestIsNotResumed
    /\ [][InnerCallOverwrites /\ ReturnClears /\ OuterReturnRestarts]_vars

C29_Witness ==
    /\ line \in NestedCallLines
    /\ phase = "running"
    /\ steps > 0
    /\ interpreter.pc = 0
    /\ interpreter.rsp = 0
    /\ Len(ProgramOutput) >= 1

(***************************************************************************)
(* C30: the loops of map, filter, fold and foreach end.  For a list of n   *)
(* elements and a block that returns, the process does not panic in the    *)
(* loop, and once main has ended the block has been called once for each   *)
(* element, from the last element to the first for map, filter and fold    *)
(* and from the first to the last for foreach.  The traced blocks print    *)
(* the top of the stack they are called with: the element, and for fold    *)
(* the accumulator, which is the sum of the elements already folded.       *)
(***************************************************************************)
LoopLines ==
    TracedLines
    \cup {<<ListLit(xs), Rebind, Op("Map")>> : xs \in IntLists}
    \cup {<<BoolListLit(bs), Rebind, Op("Filter")>> : bs \in BoolLists}

RECURSIVE SumOfLast(_, _)
SumOfLast(xs, k) ==
    IF k = 0 THEN 0 ELSE xs[Len(xs) + 1 - k] + SumOfLast(xs, k - 1)

CalledWith(l) ==
    LET xs == [i \in 1..Len(l[1].ops) |-> l[1].ops[i].v]
        n == Len(xs)
        hof == l[Len(l)].kind
    IN IF l[2] = Rebind THEN <<>>
       ELSE [i \in 1..n |->
                Printed("int",
                        <<CASE hof = "Foreach" -> xs[i]
                            [] hof = "Fold" -> SumOfLast(xs, i - 1)
                            [] OTHER -> xs[n + 1 - i]>>)]

C30_LoopsCallOncePerElement ==
    (FirstLine(LoopLines) /\ Accepted)
        => /\ phase \notin Panics
           /\ MainEnded => ProgramOutput = CalledWith(line)

====
